---- MODULE Spec2Model ----
(***************************************************************************)
(* Model of the data-profiling engine of Aidash95 (utils/data_scanner.py): *)
(* the DataScanner class over a pandas DataFrame, with the time-series     *)
(* chart of utils/visualization_engine.py and the caller of                *)
(* components/data_scanner_ui.py.                                          *)
(*                                                                         *)
(* A DataFrame is a row count and a sequence of named, single-typed        *)
(* columns.  A missing value (NaN / None / NaT) is NULL; every other value *)
(* is a natural number (for a datetime column: months since 2024-01).      *)
(* Floating-point results are exact rationals [num, den] (den > 0); a      *)
(* Pearson coefficient, which is a square root, is kept as its sign and    *)
(* its square.  Arithmetic is therefore exact, where the code's is IEEE    *)
(* double; on the small integers used here the two agree for everything    *)
(* but the rounding of a correlation coefficient.                          *)
(***************************************************************************)
EXTENDS Integers, Sequences, FiniteSets, TLC

VARIABLES df, analysis_results, insights, viz_df, saved, session_state, sheets, clock,
          op, arg, result

vars == <<df, analysis_results, insights, viz_df, saved, session_state, sheets, clock,
          op, arg, result>>

----------------------------------------------------------------------------
(* Bounds of the enumerated datasets *)

MaxLen == 4
MaxVal == 2
MaxPairRows == 2
MaxRows == 3
MaxWide == 4
MaxSessionRows == 2
MaxReportRows == 3
MaxChartRows == 2
MaxChartColumns == 5
MaxTicks == 2
MaxWrites == 1
MaxWaits == 2

----------------------------------------------------------------------------
(* Values and floating-point numbers *)

NULL == -1

NaN == [nan |-> TRUE]

Rat(n, d) == [num |-> n, den |-> d]

RInt(n) == Rat(n, 1)

RAdd(a, b) == Rat(a.num * b.den + b.num * a.den, a.den * b.den)

RSub(a, b) == Rat(a.num * b.den - b.num * a.den, a.den * b.den)

RMul(a, b) == Rat(a.num * b.num, a.den * b.den)

RLt(a, b) == a.num * b.den < b.num * a.den

RLe(a, b) == a.num * b.den <= b.num * a.den

REq(a, b) == a.num * b.den = b.num * a.den

RECURSIVE SumSeq(_)
SumSeq(s) == IF s = <<>> THEN 0 ELSE Head(s) + SumSeq(Tail(s))

SeqMin(s) == CHOOSE v \in {s[i] : i \in DOMAIN s} : \A i \in DOMAIN s : v <= s[i]

SeqMax(s) == CHOOSE v \in {s[i] : i \in DOMAIN s} : \A i \in DOMAIN s : v >= s[i]

Sorted(s) == SortSeq(s, LAMBDA a, b : a < b)

(* The slice s[:n]. *)
slice_to(s, n) == SubSeq(s, 1, IF Len(s) < n THEN Len(s) ELSE n)

----------------------------------------------------------------------------
(* IEEE 754 double precision, for the two percentages whose rounding is    *)
(* looked at.  A double is m * 2^e, m a natural number of MantissaBits     *)
(* bits, or zero.  m is held as its digits to the base LimbBase, the       *)
(* lowest first and the highest not 0.  Every operation rounds its exact   *)
(* result to nearest, ties to even.                                        *)

MantissaBits == 53

LimbBits == 15

LimbBase == 32768

DoubleZero == [e |-> 0, m |-> <<>>]

RECURSIVE Pow2(_)
Pow2(n) == IF n = 0 THEN 1 ELSE 2 * Pow2(n - 1)

(* The digits of a natural number. *)
RECURSIVE Big(_)
Big(n) == IF n = 0 THEN <<>> ELSE <<n % LimbBase>> \o Big(n \div LimbBase)

RECURSIVE Norm(_)
Norm(n) == IF n # <<>> /\ n[Len(n)] = 0 THEN Norm(SubSeq(n, 1, Len(n) - 1)) ELSE n

(* n * c + carry for a natural c below LimbBase *)
RECURSIVE MulSmall(_, _, _)
MulSmall(n, c, carry) ==
  IF n = <<>> THEN Big(carry)
  ELSE <<(Head(n) * c + carry) % LimbBase>>
       \o MulSmall(Tail(n), c, (Head(n) * c + carry) \div LimbBase)

(* The digits i, i - 1, ..., 1 of n divided by d, rem carried in from      *)
(* above: quotient and remainder.                                          *)
RECURSIVE DivSmall(_, _, _, _)
DivSmall(n, d, i, rem) ==
  IF i = 0 THEN [quot |-> <<>>, rem |-> rem]
  ELSE LET lower == DivSmall(n, d, i - 1, (rem * LimbBase + n[i]) % d)
       IN [quot |-> Append(lower.quot, (rem * LimbBase + n[i]) \div d), rem |-> lower.rem]

RECURSIVE BigAdd(_, _, _)
BigAdd(a, b, carry) ==
  IF a = <<>> /\ b = <<>> THEN Big(carry)
  ELSE LET v == (IF a = <<>> THEN 0 ELSE Head(a)) + (IF b = <<>> THEN 0 ELSE Head(b)) + carry
       IN <<v % LimbBase>>
          \o BigAdd(IF a = <<>> THEN a ELSE Tail(a), IF b = <<>> THEN b ELSE Tail(b),
                    v \div LimbBase)

RECURSIVE BitLenSmall(_)
BitLenSmall(n) == IF n = 0 THEN 0 ELSE 1 + BitLenSmall(n \div 2)

BitLen(n) == IF n = <<>> THEN 0 ELSE LimbBits * (Len(n) - 1) + BitLenSmall(n[Len(n)])

ShiftLeft(n, s) ==
  IF n = <<>> THEN n
  ELSE [i \in 1..(s \div LimbBits) |-> 0] \o MulSmall(n, Pow2(s % LimbBits), 0)

(* n div 2^s, and whether a rest is left. *)
ShiftRight(n, s) ==
  LET q == s \div LimbBits
      kept == SubSeq(n, q + 1, Len(n))
      d == DivSmall(kept, Pow2(s % LimbBits), Len(kept), 0)
  IN [quot |-> Norm(d.quot),
      rest |-> d.rem # 0 \/ \E i \in 1..q : i <= Len(n) /\ n[i] # 0]

(* The double nearest to n * 2^e; sticky: a non-zero rest lies below n. *)
RoundToNearestEven(n, e, sticky) ==
  IF n = <<>> THEN DoubleZero
  ELSE IF BitLen(n) <= MantissaBits
    THEN [e |-> e - (MantissaBits - BitLen(n)), m |-> ShiftLeft(n, MantissaBits - BitLen(n))]
  ELSE
    LET s == BitLen(n) - MantissaBits
        guard == ShiftRight(n, s - 1)
        keep == ShiftRight(guard.quot, 1).quot
        up == /\ guard.quot[1] % 2 = 1
              /\ (sticky \/ guard.rest \/ keep[1] % 2 = 1)
        inc == Norm(BigAdd(keep, <<1>>, 0))
    IN IF ~up THEN [e |-> e + s, m |-> keep]
       ELSE IF BitLen(inc) > MantissaBits
         THEN [e |-> e + s + 1, m |-> ShiftRight(inc, 1).quot]
       ELSE [e |-> e + s, m |-> inc]

(* Extra quotient bits that leave a quotient beyond the mantissa for any   *)
(* a / b with b below LimbBase.                                            *)
QuotientShift == 75

(* a / b for integers a >= 0 and 0 < b < LimbBase *)
truediv(a, b) ==
  LET d == DivSmall(ShiftLeft(Big(a), QuotientShift), b,
                    Len(ShiftLeft(Big(a), QuotientShift)), 0)
  IN RoundToNearestEven(Norm(d.quot), 0 - QuotientShift, d.rem # 0)

(* x * c for a double x and a natural c below LimbBase *)
multiply(x, c) == RoundToNearestEven(Norm(MulSmall(x.m, c, 0)), x.e, FALSE)

(* x + y for doubles x, y >= 0 *)
add(x, y) ==
  IF x.m = <<>> THEN y
  ELSE IF y.m = <<>> THEN x
  ELSE LET e == IF x.e < y.e THEN x.e ELSE y.e
       IN RoundToNearestEven(Norm(BigAdd(ShiftLeft(x.m, x.e - e), ShiftLeft(y.m, y.e - e), 0)),
                             e, FALSE)

(* float(n) for a natural n *)
double(n) == RoundToNearestEven(Big(n), 0, FALSE)

----------------------------------------------------------------------------
(* pandas Series operations *)

isnull(s) == [i \in DOMAIN s |-> s[i] = NULL]

dropna(s) == SelectSeq(s, LAMBDA v : v # NULL)

null_count(s) == Cardinality({i \in DOMAIN s : s[i] = NULL})

nunique(s) == Cardinality({s[i] : i \in DOMAIN s} \ {NULL})

(* Variant: the lower order statistic, without interpolation. *)
quantile_lower(s, q) ==
  Rat(Sorted(s)[((q.num * (Len(s) - 1)) \div q.den) + 1] * q.den, q.den)

(* Series.quantile(q), linear interpolation between the two order         *)
(* statistics around the virtual index q * (n - 1); s holds no NULL and is *)
(* not empty.                                                              *)
quantile(s, q) ==
  LET n == Len(s)
      srt == Sorted(s)
      pos == q.num * (n - 1)
      lo == pos \div q.den
      fr == pos % q.den
  IN IF fr = 0
       THEN Rat(srt[lo + 1] * q.den, q.den)
       ELSE Rat(srt[lo + 1] * q.den + fr * (srt[lo + 2] - srt[lo + 1]), q.den)

mean(s) == Rat(SumSeq(s), Len(s))

(* Series.std() (ddof = 1), kept as its square; NaN for a single value. *)
std(s) ==
  LET n == Len(s)
      sq == SumSeq([i \in DOMAIN s |-> s[i] * s[i]])
  IN IF n < 2 THEN NaN
     ELSE [nan |-> FALSE, squared |-> Rat(n * sq - SumSeq(s) * SumSeq(s), n * (n - 1))]

(* Series.mode().iloc[0]: the smallest of the most frequent values. *)
Count(s, v) == Cardinality({i \in DOMAIN s : s[i] = v})

mode0(s) ==
  LET top == {v \in {s[i] : i \in DOMAIN s} :
                \A w \in {s[i] : i \in DOMAIN s} : Count(s, v) >= Count(s, w)}
  IN CHOOSE v \in top : \A w \in top : v <= w

----------------------------------------------------------------------------
(* DataFrame *)

Float64 == "float64"
Object == "object"
Datetime64 == "datetime64[ns]"

Column(name, dtype, values) == [name |-> name, dtype |-> dtype, values |-> values]

DataFrame(nrows, columns) == [nrows |-> nrows, columns |-> columns]

columns(d) == [i \in DOMAIN d.columns |-> d.columns[i].name]

ColumnNames(d) == {d.columns[i].name : i \in DOMAIN d.columns}

series(d, column) ==
  (CHOOSE c \in {d.columns[i] : i \in DOMAIN d.columns} : c.name = column).values

dtype_of(d, column) ==
  (CHOOSE c \in {d.columns[i] : i \in DOMAIN d.columns} : c.name = column).dtype

(* Variant: empty only when both axes have length 0. *)
empty_both_axes(d) == d.nrows = 0 /\ Len(d.columns) = 0

(* DataFrame.empty: some axis has length 0. *)
empty(d) == d.nrows = 0 \/ Len(d.columns) = 0

row(d, r) == [i \in DOMAIN d.columns |-> d.columns[i].values[r]]

(* DataFrame.duplicated().sum(): rows equal to an earlier row (NaN = NaN). *)
duplicated_sum(d) ==
  IF empty(d) THEN 0 ELSE
  Cardinality({r \in 1..d.nrows : \E q \in 1..(r - 1) : row(d, q) = row(d, r)})

(* DataFrame.isnull().sum().sum() *)
null_cells(d) == SumSeq([i \in DOMAIN d.columns |-> null_count(d.columns[i].values)])

select_dtypes(d, dtype) ==
  DataFrame(d.nrows, SelectSeq(d.columns, LAMBDA c : c.dtype = dtype))

----------------------------------------------------------------------------
(* DataScanner.scan_overview *)

(* Variant: the share of missing cells instead of present ones. *)
data_quality_score_missing(total_cells, nulls) ==
  IF total_cells > 0 THEN Rat(nulls * 100, total_cells) ELSE Rat(0, 1)

(* The exact value, and beside it the double the division and the         *)
(* multiplication give.                                                    *)
data_quality_score(total_cells, nulls) ==
  IF total_cells > 0
    THEN Rat((total_cells - nulls) * 100, total_cells)
         @@ [double |-> multiply(truediv(total_cells - nulls, total_cells), 100)]
    ELSE Rat(0, 1)

scan_overview(d) ==
  IF empty(d) THEN [error |-> "No data to analyze"]
  ELSE LET total_cells == d.nrows * Len(d.columns)
           nulls == null_cells(d)
       IN [shape |-> <<d.nrows, Len(d.columns)>>,
           columns |-> columns(d),
           dtypes |-> [i \in DOMAIN d.columns |-> d.columns[i].dtype],
           null_counts |-> [i \in DOMAIN d.columns |-> null_count(d.columns[i].values)],
           duplicate_rows |-> duplicated_sum(d),
           numeric_columns |-> columns(select_dtypes(d, Float64)),
           categorical_columns |-> columns(select_dtypes(d, Object)),
           datetime_columns |-> columns(select_dtypes(d, Datetime64)),
           data_quality_score |-> data_quality_score(total_cells, nulls)]

----------------------------------------------------------------------------
(* DataScanner._detect_outliers: the IQR rule on a series without NULL *)

OutlierCap == 20

IqrFactor == Rat(3, 2)

(* Variant: a value equal to a bound counts as outside. *)
is_outlier_inclusive(v, lower_bound, upper_bound) ==
  RLe(RInt(v), lower_bound) \/ RLe(upper_bound, RInt(v))

is_outlier(v, lower_bound, upper_bound) ==
  RLt(RInt(v), lower_bound) \/ RLt(upper_bound, RInt(v))

(* Variant: the last twenty. *)
last_outliers(outliers) ==
  SubSeq(outliers, IF Len(outliers) < OutlierCap THEN 1 ELSE Len(outliers) - OutlierCap + 1,
         Len(outliers))

(* outliers.tolist()[:20] *)
first_outliers(outliers) == slice_to(outliers, OutlierCap)

_detect_outliers(s) ==
  LET Q1 == quantile(s, Rat(1, 4))
      Q3 == quantile(s, Rat(3, 4))
      IQR == RSub(Q3, Q1)
      lower_bound == RSub(Q1, RMul(IqrFactor, IQR))
      upper_bound == RAdd(Q3, RMul(IqrFactor, IQR))
      outliers == SelectSeq(s, LAMBDA v : is_outlier(v, lower_bound, upper_bound))
  IN [count |-> Len(outliers),
      percentage |-> IF Len(s) > 0 THEN Rat(Len(outliers) * 100, Len(s)) ELSE Rat(0, 1),
      lower_bound |-> lower_bound,
      upper_bound |-> upper_bound,
      outlier_values |-> first_outliers(outliers)]

----------------------------------------------------------------------------
(* DataScanner.analyze_column *)

TopN == 10

(* value_counts().head(10).to_dict(): the counts of the (at most) ten     *)
(* most frequent values, a tie going to the value that appears first.      *)
FirstIndex(s, v) == CHOOSE i \in DOMAIN s : s[i] = v /\ \A j \in 1..(i - 1) : s[j] # v

top_values(s) ==
  LET vals == {s[i] : i \in DOMAIN s} \ {NULL}
      before(w, v) == \/ Count(s, w) > Count(s, v)
                      \/ Count(s, w) = Count(s, v) /\ FirstIndex(s, w) < FirstIndex(s, v)
      kept == {v \in vals : Cardinality({w \in vals : before(w, v)}) < TopN}
  IN [v \in kept |-> Count(s, v)]

(* A datetime value m is the first day of the m-th month after 2024-01. *)
year(m) == 2024 + (m \div 12)

month(m) == (m % 12) + 1

DaysInMonth(m) ==
  LET y == year(m)
      leap == (y % 4 = 0 /\ y % 100 # 0) \/ y % 400 = 0
  IN IF month(m) = 2 THEN (IF leap THEN 29 ELSE 28)
     ELSE IF month(m) \in {4, 6, 9, 11} THEN 30 ELSE 31

RECURSIVE days_between(_, _)
days_between(m1, m2) == IF m1 >= m2 THEN 0 ELSE DaysInMonth(m1) + days_between(m1 + 1, m2)

(* Variant: statistics from two values on. *)
has_two_numeric_values(numeric_series) == Len(numeric_series) > 1

has_numeric_values(numeric_series) == Len(numeric_series) > 0

(* Variant: date fields from two dates on. *)
has_two_dates(dt_series) == Len(dt_series) > 1

has_dates(dt_series) == Len(dt_series) > 0

(* Variant: an analysis of no values, with the message beside it. *)
column_not_found_as_analysis(column) ==
  [column_name |-> column, count |-> 0, null_count |-> 0, null_percentage |-> Rat(0, 1),
   unique_count |-> 0, unique_percentage |-> Rat(0, 1),
   error |-> "Column '" \o column \o "' not found"]

column_not_found(column) == [error |-> "Column '" \o column \o "' not found"]

analyze_column(d, column) ==
  IF column \notin ColumnNames(d) THEN column_not_found(column)
  ELSE
    LET s == series(d, column)
        analysis ==
          [column_name |-> column,
           dtype |-> dtype_of(d, column),
           count |-> Len(s),
           null_count |-> null_count(s),
           null_percentage |-> IF Len(s) > 0 THEN Rat(null_count(s) * 100, Len(s))
                                             ELSE Rat(0, 1),
           unique_count |-> nunique(s),
           unique_percentage |-> IF Len(s) > 0 THEN Rat(nunique(s) * 100, Len(s))
                                               ELSE Rat(0, 1)]
    IN IF dtype_of(d, column) = Float64 THEN
         LET numeric_series == dropna(s)
         IN IF has_numeric_values(numeric_series)
              THEN analysis @@
                   [min |-> SeqMin(numeric_series),
                    max |-> SeqMax(numeric_series),
                    mean |-> mean(numeric_series),
                    median |-> quantile(numeric_series, Rat(1, 2)),
                    std |-> std(numeric_series),
                    q25 |-> quantile(numeric_series, Rat(1, 4)),
                    q75 |-> quantile(numeric_series, Rat(3, 4)),
                    outliers |-> _detect_outliers(numeric_series)]
              ELSE analysis
       ELSE IF dtype_of(d, column) = Object THEN
         \* avg_length and the contains_emails / _phones / _urls counts read the
         \* characters of the values, which the model does not hold.
         analysis @@ [top_values |-> top_values(s)]
       ELSE IF dtype_of(d, column) = Datetime64 THEN
         LET dt_series == dropna(s)
         IN IF has_dates(dt_series)
              THEN analysis @@
                   [min_date |-> SeqMin(dt_series),
                    max_date |-> SeqMax(dt_series),
                    date_range_days |-> days_between(SeqMin(dt_series), SeqMax(dt_series)),
                    most_common_year |-> mode0([i \in DOMAIN dt_series |-> year(dt_series[i])]),
                    most_common_month |-> mode0([i \in DOMAIN dt_series |-> month(dt_series[i])])]
              ELSE analysis
       ELSE analysis

----------------------------------------------------------------------------
(* DataFrame.corr(): Pearson, over the rows where both columns hold a      *)
(* value (min_periods = 1).  The coefficient sxy / sqrt(sxx * syy) is kept *)
(* as its sign and its square num2 / den2.                                 *)

Sign(n) == IF n > 0 THEN 1 ELSE IF n < 0 THEN -1 ELSE 0

(* Variant: the sum of products is not scaled by the number of rows. *)
covariance_unscaled(n, sx, sy, sxy) == sxy - sx * sy

covariance(n, sx, sy, sxy) == n * sxy - sx * sy

corr(x, y) ==
  LET both(i) == x[i] # NULL /\ y[i] # NULL
      n == Cardinality({i \in DOMAIN x : both(i)})
      mx == [i \in DOMAIN x |-> IF both(i) THEN x[i] ELSE 0]
      my == [i \in DOMAIN x |-> IF both(i) THEN y[i] ELSE 0]
      sx == SumSeq(mx)
      sy == SumSeq(my)
      cxy == covariance(n, sx, sy, SumSeq([i \in DOMAIN x |-> mx[i] * my[i]]))
      cxx == covariance(n, sx, sx, SumSeq([i \in DOMAIN x |-> mx[i] * mx[i]]))
      cyy == covariance(n, sy, sy, SumSeq([i \in DOMAIN x |-> my[i] * my[i]]))
  IN IF n < 1 \/ cxx * cyy = 0 THEN NaN
     ELSE [nan |-> FALSE, sgn |-> Sign(cxy), num2 |-> cxy * cxy, den2 |-> cxx * cyy]

(* abs(v) of a coefficient; abs(NaN) is NaN. *)
abs(v) == IF v.nan THEN v ELSE [v EXCEPT !.sgn = IF v.sgn < 0 THEN 1 ELSE v.sgn]

(* v >= t for a coefficient v and a rational t; False when v is NaN. *)
ge(v, t) ==
  IF v.nan THEN FALSE
  ELSE IF v.sgn >= 0
    THEN t.num <= 0 \/ v.num2 * t.den * t.den >= t.num * t.num * v.den2
    ELSE t.num < 0 /\ v.num2 * t.den * t.den <= t.num * t.num * v.den2

----------------------------------------------------------------------------
(* DataScanner._correlation_strength and DataScanner.find_correlations *)

_correlation_strength(corr_value) ==
  IF ge(corr_value, Rat(4, 5)) THEN "Very Strong"
  ELSE IF ge(corr_value, Rat(3, 5)) THEN "Strong"
  ELSE IF ge(corr_value, Rat(2, 5)) THEN "Moderate"
  ELSE IF ge(corr_value, Rat(1, 5)) THEN "Weak"
  ELSE "Very Weak"

(* Variant: for j in range(k), every other column. *)
inner_range_all(i, k) == SelectSeq([j \in 1..k |-> <<i, j>>], LAMBDA p : p[2] # i)

(* for j in range(i+1, k): the pairs of row i, 1-based *)
inner_range(i, k) == [j \in 1..(k - i) |-> <<i, i + j>>]

RECURSIVE index_pairs(_, _)
index_pairs(i, k) == IF i > k THEN <<>> ELSE inner_range(i, k) \o index_pairs(i + 1, k)

(* Variant: strictly above the threshold. *)
is_strong_strict(corr_value, threshold) ==
  /\ ~corr_value.nan
  /\ \/ threshold.num < 0
     \/ corr_value.num2 * threshold.den * threshold.den
          > threshold.num * threshold.num * corr_value.den2

is_strong(corr_value, threshold) == ge(abs(corr_value), threshold)

(* Variant: the signed coefficient is classified. *)
strength_of_signed(corr_value) == _correlation_strength(corr_value)

strength_of(corr_value) == _correlation_strength(abs(corr_value))

(* Variant: one numeric column is taken to be enough. *)
min_one_numeric_column(numeric_df) == Len(numeric_df.columns) < 1

min_numeric_columns(numeric_df) == Len(numeric_df.columns) < 2

find_correlations(d, threshold) ==
  LET numeric_df == select_dtypes(d, Float64)
      k == Len(numeric_df.columns)
      corr_matrix == [i \in 1..k |-> [j \in 1..k |->
                        corr(numeric_df.columns[i].values, numeric_df.columns[j].values)]]
      pairs == index_pairs(1, k)
      strong == SelectSeq(pairs, LAMBDA p : is_strong(corr_matrix[p[1]][p[2]], threshold))
      triu == [n \in DOMAIN pairs |-> corr_matrix[pairs[n][1]][pairs[n][2]]]
  IN IF min_numeric_columns(numeric_df)
       THEN [error |-> "Need at least 2 numeric columns for correlation analysis"]
       ELSE [correlation_matrix |-> corr_matrix,
             strong_correlations |->
               [n \in DOMAIN strong |->
                  [column1 |-> numeric_df.columns[strong[n][1]].name,
                   column2 |-> numeric_df.columns[strong[n][2]].name,
                   correlation |-> corr_matrix[strong[n][1]][strong[n][2]],
                   strength |-> strength_of(corr_matrix[strong[n][1]][strong[n][2]])]],
             \* the mean of the strictly upper triangle: NaN as soon as one
             \* coefficient is, else the mean of the coefficients listed
             avg_correlation |->
               IF \E n \in DOMAIN triu : triu[n].nan THEN NaN
               ELSE [nan |-> FALSE, mean_of |-> triu]]

----------------------------------------------------------------------------
(* DataScanner.detect_patterns *)

(* Variant: the share of missing cells as a fraction of 1. *)
missing_fraction(missing, cells) ==
  IF cells = 0 THEN NaN
  ELSE Rat(missing, cells) @@ [double |-> truediv(missing, cells)]

(* missing / cells * 100: the exact value and the double; 0 / 0 is NaN. *)
missing_percentage(missing, cells) ==
  IF cells = 0 THEN NaN
  ELSE Rat(missing * 100, cells) @@ [double |-> multiply(truediv(missing, cells), 100)]

(* Variant: the smallest count first. *)
missing_before_ascending(a, b) ==
  a.missing < b.missing \/ (a.missing = b.missing /\ a.pos < b.pos)

(* The order of sort_values(ascending=False). *)
missing_before(a, b) ==
  a.missing > b.missing \/ (a.missing = b.missing /\ a.pos < b.pos)

(* sort_values(ascending=False) of the per-column missing counts above 0;  *)
(* columns with equal counts keep their column order.                      *)
_analyze_missing_patterns(d) ==
  LET counts == [i \in DOMAIN d.columns |->
                   [column |-> d.columns[i].name, pos |-> i,
                    missing |-> null_count(d.columns[i].values)]]
      missing_cols == SortSeq(SelectSeq(counts, LAMBDA c : c.missing > 0), missing_before)
      cells == d.nrows * Len(d.columns)
  IN [columns_with_missing |->
        [n \in DOMAIN missing_cols |->
           [column |-> missing_cols[n].column, missing |-> missing_cols[n].missing]],
      rows_with_missing |->
        Cardinality({r \in 1..d.nrows : \E i \in DOMAIN d.columns : d.columns[i].values[r] = NULL}),
      total_missing_cells |-> null_cells(d),
      missing_percentage |-> missing_percentage(null_cells(d), cells)]

(* Variant: distinct among the values present, missing ones ignored. *)
is_potential_id_ignoring_nulls(s, nrows) == nunique(s) = Len(dropna(s))

is_potential_id(s, nrows) == nunique(s) = nrows /\ ~(\E i \in DOMAIN s : isnull(s)[i])

_analyze_duplicate_patterns(d) ==
  [duplicate_rows |-> duplicated_sum(d),
   duplicate_percentage |-> IF d.nrows > 0 THEN Rat(duplicated_sum(d) * 100, d.nrows)
                                             ELSE Rat(0, 1),
   potential_id_columns |->
     columns(DataFrame(d.nrows,
                       SelectSeq(d.columns, LAMBDA c : is_potential_id(c.values, d.nrows))))]

(* The prefix / suffix signatures read the characters of the values, which *)
(* the model does not hold: only the columns that get an entry are kept.   *)
_analyze_value_patterns(d) ==
  {c.name : c \in {d.columns[i] : i \in DOMAIN d.columns} \cap
                  {c \in {d.columns[i] : i \in DOMAIN d.columns} :
                     c.dtype = Object /\ Len(dropna(c.values)) > 0}}

detect_patterns(d) ==
  [missing_data_patterns |-> _analyze_missing_patterns(d),
   duplicate_patterns |-> _analyze_duplicate_patterns(d),
   value_patterns |-> _analyze_value_patterns(d)]

----------------------------------------------------------------------------
(* DataScanner.generate_insights.  An insight is a record of the rule that *)
(* fired and the quantities its text shows; the rendering of the text      *)
(* (one or two decimals, an emoji) is not held.                            *)

InsightCap == 10

TopCorrelations == 3

QualityScoreBelow == 80

NullPercentageAbove == 50

UniquePercentageAbove == 95

IdentifierRowsAbove == 10

OutlierPercentageAbove == 10

NoDataInsight == [rule |-> "no_data", text |-> "No data available for analysis"]

(* Variant: an identifier note from ten rows on. *)
is_identifier_from_ten_rows(col_analysis) ==
  /\ RLt(RInt(UniquePercentageAbove), col_analysis.unique_percentage)
  /\ col_analysis.count >= IdentifierRowsAbove

is_identifier(col_analysis) ==
  /\ RLt(RInt(UniquePercentageAbove), col_analysis.unique_percentage)
  /\ col_analysis.count > IdentifierRowsAbove

(* The body of the loop over the columns, for one column. *)
column_insights(d, col) ==
  LET col_analysis == analyze_column(d, col)
  IN (IF RLt(RInt(NullPercentageAbove), col_analysis.null_percentage)
        THEN <<[rule |-> "missing", column |-> col,
                null_percentage |-> col_analysis.null_percentage]>>
        ELSE <<>>)
     \o (IF is_identifier(col_analysis)
           THEN <<[rule |-> "identifier", column |-> col]>>
           ELSE <<>>)
     \o (IF /\ "outliers" \in DOMAIN col_analysis
            /\ RLt(RInt(OutlierPercentageAbove), col_analysis.outliers.percentage)
           THEN <<[rule |-> "outliers", column |-> col,
                   outlier_percentage |-> col_analysis.outliers.percentage]>>
           ELSE <<>>)

RECURSIVE columns_insights(_, _)
columns_insights(d, i) ==
  IF i > Len(d.columns) THEN <<>>
  ELSE column_insights(d, d.columns[i].name) \o columns_insights(d, i + 1)

correlation_insights(d) ==
  IF Len(select_dtypes(d, Float64).columns) >= 2
    THEN LET correlations == find_correlations(d, Rat(1, 2))
         IN IF "strong_correlations" \in DOMAIN correlations
              THEN LET top == slice_to(correlations.strong_correlations, TopCorrelations)
                   IN [n \in DOMAIN top |->
                         [rule |-> "correlation", correlation |-> top[n].correlation,
                          column1 |-> top[n].column1, column2 |-> top[n].column2]]
              ELSE <<>>
    ELSE <<>>

(* Variant: the whole list. *)
limit_insights_all(all_insights) == all_insights

limit_insights(all_insights) == slice_to(all_insights, InsightCap)

generate_insights(d) ==
  IF empty(d) THEN <<NoDataInsight>>
  ELSE
    LET overview == scan_overview(d)
        quality == IF RLt(overview.data_quality_score, RInt(QualityScoreBelow))
                     THEN <<[rule |-> "quality", score |-> overview.data_quality_score]>>
                     ELSE <<>>
        duplicates == IF overview.duplicate_rows > 0
                        THEN <<[rule |-> "duplicates",
                                duplicate_rows |-> overview.duplicate_rows]>>
                        ELSE <<>>
    IN limit_insights(quality \o duplicates \o columns_insights(d, 1)
                      \o correlation_insights(d))

----------------------------------------------------------------------------
(* VisualizationEngine.create_time_series_chart (utils/visualization_engine.py) *)

None == [none |-> TRUE]

(* A text value reads as a date, but for the text 0, which stands for a    *)
(* text that is no date.                                                   *)
is_date_text(v) == v # 0

(* pd.to_datetime(series, errors='coerce'): a number or a datetime stays a *)
(* point in time, a text that is no date becomes NaT.                      *)
to_datetime(c) ==
  [name |-> c.name,
   dtype |-> Datetime64,
   values |-> [r \in DOMAIN c.values |->
                 IF c.dtype = Object /\ ~is_date_text(c.values[r]) THEN NULL
                 ELSE c.values[r]]]

create_time_series_chart(d, date_column, value_column) ==
  IF date_column \notin ColumnNames(d) \/ value_column \notin ColumnNames(d) THEN None
  \* one name twice selects a frame of two columns, which to_datetime
  \* rejects: the exception is caught and None returned
  ELSE IF date_column = value_column THEN None
  ELSE
    LET dates == to_datetime(CHOOSE c \in {d.columns[i] : i \in DOMAIN d.columns} :
                               c.name = date_column).values
        values == series(d, value_column)
        rows == SelectSeq([r \in 1..d.nrows |-> r],
                          LAMBDA r : dates[r] # NULL /\ values[r] # NULL)
        df_ts == SortSeq(rows, LAMBDA q, r : dates[q] < dates[r]
                                             \/ (dates[q] = dates[r] /\ q < r))
    IN IF Len(df_ts) = 0 THEN None
       ELSE [chart |-> "line",
             x |-> [n \in DOMAIN df_ts |-> dates[df_ts[n]]],
             y |-> [n \in DOMAIN df_ts |-> values[df_ts[n]]],
             xaxis_title |-> date_column,
             yaxis_title |-> value_column]

----------------------------------------------------------------------------
(* The charts of the two visualization engines.  A chart is the plotly     *)
(* call that made it: its kind and the data handed over.                   *)

(* An exception that leaves the operation. *)
Raised == [raised |-> TRUE]

(* The rows in which both series hold a value. *)
paired_rows(s1, s2) == SelectSeq([r \in DOMAIN s1 |-> r], LAMBDA r : s1[r] # NULL /\ s2[r] # NULL)

(* value_counts().head(n): the count of each of the n most frequent        *)
(* values, the earlier one first among equals.                             *)
value_counts_head(s, n) ==
  LET vals == {s[i] : i \in DOMAIN s} \ {NULL}
      before(w, v) == \/ Count(s, w) > Count(s, v)
                      \/ Count(s, w) = Count(s, v) /\ FirstIndex(s, w) < FirstIndex(s, v)
      kept == {v \in vals : Cardinality({w \in vals : before(w, v)}) < n}
  IN [v \in kept |-> Count(s, v)]

(* df.dtypes.value_counts(): the number of columns of each type. *)
dtype_counts(d) ==
  [t \in {d.columns[i].dtype : i \in DOMAIN d.columns} |->
     Cardinality({i \in DOMAIN d.columns : d.columns[i].dtype = t})]

----------------------------------------------------------------------------
(* VisualizationEngine of utils/data_scanner.py *)

NumericLimit == 4

ValueLimit == 20

(* Variant: every numeric column is shown. *)
numeric_shown_all(numeric_cols) == numeric_cols

(* numeric_cols[:4] *)
numeric_shown(numeric_cols) == slice_to(numeric_cols, NumericLimit)

create_overview_charts(d) ==
  IF empty(d) THEN [error |-> "No data to visualize"]
  ELSE
    LET numeric_cols == columns(select_dtypes(d, Float64))
        shown == numeric_shown(numeric_cols)
    IN [data_types |-> [chart |-> "pie", values |-> dtype_counts(d)]]
       @@ (IF null_cells(d) > 0
             THEN [missing_data |->
                     [chart |-> "imshow",
                      z |-> [i \in DOMAIN d.columns |-> isnull(d.columns[i].values)]]]
             ELSE <<>>)
       @@ (IF Len(numeric_cols) > 0
             THEN [numeric_distributions |->
                     [col \in {shown[n] : n \in DOMAIN shown} |->
                        [chart |-> "histogram", x |-> col]]]
             ELSE <<>>)

create_column_analysis_chart(d, column) ==
  IF column \notin ColumnNames(d) THEN None
  ELSE
    LET s == series(d, column)
    IN IF dtype_of(d, column) = Float64 THEN [chart |-> "box", y |-> s]
       ELSE IF dtype_of(d, column) = Object
         THEN [chart |-> "bar", counts |-> value_counts_head(s, ValueLimit)]
       ELSE IF dtype_of(d, column) = Datetime64 THEN
         LET dt_series == dropna(s)
         IN IF Len(dt_series) > 0
              THEN [chart |-> "line",
                    counts |-> [m \in {dt_series[i] : i \in DOMAIN dt_series} |->
                                  Count(dt_series, m)]]
              ELSE None
       ELSE None

(* pd.crosstab(x, y): the count of each pair of values over the rows that  *)
(* hold both.                                                              *)
crosstab(sx, sy) ==
  LET rows == paired_rows(sx, sy)
  IN [pair \in {<<sx[rows[n]], sy[rows[n]]>> : n \in DOMAIN rows} |->
        Cardinality({n \in DOMAIN rows : <<sx[rows[n]], sy[rows[n]]>> = pair})]

(* The outcomes of create_comparison_charts.  One text column named twice  *)
(* makes a cross-tabulation of two series of one name, which pandas builds *)
(* or rejects.                                                             *)
create_comparison_charts(d, x_col, y_col) ==
  IF x_col \notin ColumnNames(d) \/ y_col \notin ColumnNames(d) THEN {None}
  ELSE IF dtype_of(d, x_col) = Float64 /\ dtype_of(d, y_col) = Float64
    THEN {[chart |-> "scatter", x |-> series(d, x_col), y |-> series(d, y_col),
           trendline |-> "ols"]}
  ELSE IF dtype_of(d, x_col) = Object /\ dtype_of(d, y_col) = Float64
    THEN {[chart |-> "box", x |-> series(d, x_col), y |-> series(d, y_col)]}
  ELSE IF dtype_of(d, x_col) = Object /\ dtype_of(d, y_col) = Object
    THEN {[chart |-> "imshow", z |-> crosstab(series(d, x_col), series(d, y_col))]}
         \cup (IF x_col = y_col THEN {Raised} ELSE {})
  ELSE {None}

----------------------------------------------------------------------------
(* VisualizationEngine of utils/visualization_engine.py *)

BarUniqueMax == 20

ChartTypes == {"auto", "histogram", "bar", "box", "line", "scatter", "pie"}

(* int(np.sqrt(n)) *)
isqrt(n) == CHOOSE k \in 0..n : k * k <= n /\ (k + 1) * (k + 1) > n

Max(a, b) == IF a > b THEN a ELSE b

nbins(n) == LET m == Max(10, isqrt(n)) IN IF m < 50 THEN m ELSE 50

(* The missing counts per column, the largest first. *)
engine_create_overview_charts(d) ==
  LET counts == [i \in DOMAIN d.columns |->
                   [column |-> d.columns[i].name, pos |-> i,
                    missing |-> null_count(d.columns[i].values)]]
      missing_data == SortSeq(counts, missing_before)
  IN [data_types |-> [chart |-> "pie", values |-> dtype_counts(d)],
      metrics |-> [chart |-> "bar",
                   x |-> <<"Total Rows", "Total Columns", "Non-null Values", "Unique Values">>,
                   y |-> <<d.nrows, Len(d.columns),
                           d.nrows * Len(d.columns) - null_cells(d),
                           SumSeq([i \in DOMAIN d.columns |-> nunique(d.columns[i].values)])>>]]
     @@ (IF null_cells(d) > 0
           THEN [missing_data |->
                   [chart |-> "bar",
                    x |-> [n \in DOMAIN missing_data |-> missing_data[n].missing],
                    y |-> [n \in DOMAIN missing_data |-> missing_data[n].column]]]
           ELSE <<>>)

_create_histogram(s, numeric) ==
  IF numeric THEN [chart |-> "histogram", x |-> s, nbins |-> nbins(Len(s))]
  ELSE [chart |-> "bar", counts |-> value_counts_head(s, ValueLimit), title |-> "Top Values"]

_create_bar_chart(s) ==
  [chart |-> "bar", counts |-> value_counts_head(s, ValueLimit), title |-> "Value Counts"]

_create_box_plot(s) == [chart |-> "box", y |-> s]

(* The index of a value is the row it stood in before dropna. *)
_create_line_chart(index, s) == [chart |-> "line", x |-> index, y |-> s]

_create_scatter_plot(index, s) == [chart |-> "scatter", x |-> index, y |-> s]

create_column_chart(d, column_name, chart_type) ==
  IF column_name \notin ColumnNames(d) THEN None
  ELSE
    LET all == series(d, column_name)
        index == SelectSeq([r \in DOMAIN all |-> r], LAMBDA r : all[r] # NULL)
        s == dropna(all)
        numeric == dtype_of(d, column_name) = Float64
        type == IF chart_type # "auto" THEN chart_type
                ELSE IF numeric THEN "histogram"
                ELSE IF nunique(s) <= BarUniqueMax THEN "bar"
                ELSE "histogram"
    IN IF Len(s) = 0 THEN None
       ELSE IF type = "histogram" THEN _create_histogram(s, numeric)
       ELSE IF type = "bar" THEN _create_bar_chart(s)
       ELSE IF type = "box" THEN _create_box_plot(s)
       ELSE IF type = "line" THEN _create_line_chart(index, s)
       ELSE IF type = "scatter" THEN _create_scatter_plot(index, s)
       ELSE _create_histogram(s, numeric)

ComparisonTypes == {"scatter", "line", "bar"}

(* The outcomes of create_comparison_chart.  One column named twice        *)
(* selects a frame of two columns of one name, which plotly draws or       *)
(* rejects; the exception is caught and None returned.                     *)
create_comparison_chart(d, column1, column2, chart_type) ==
  IF column1 \notin ColumnNames(d) \/ column2 \notin ColumnNames(d) THEN {None}
  ELSE
    LET s1 == series(d, column1)
        s2 == series(d, column2)
        df_clean == paired_rows(s1, s2)
    IN IF Len(df_clean) = 0 THEN {None}
       ELSE {[chart |-> IF chart_type = "line" THEN "line" ELSE "scatter",
              x |-> [n \in DOMAIN df_clean |-> s1[df_clean[n]]],
              y |-> [n \in DOMAIN df_clean |-> s2[df_clean[n]]]]}
            \cup (IF column1 = column2 THEN {None} ELSE {})

----------------------------------------------------------------------------
(* The Streamlit session (st.session_state), the Google Sheets provider    *)
(* behind gspread, and the clock (time.time(), in seconds).                *)
(* A text the code looks into (a sheet id, a URL, a worksheet name, a      *)
(* cache key) is the sequence of its characters.                           *)

Get(ss, key, default) == IF key \in DOMAIN ss THEN ss[key] ELSE default

Set(ss, key, value) == [k \in DOMAIN ss \cup {key} |-> IF k = key THEN value ELSE ss[k]]

Del(ss, keys) == [k \in DOMAIN ss \ keys |-> ss[k]]

EmptyDict == <<>>

(* str.find, from 1; 0 when sub does not occur. *)
find(s, sub) ==
  LET at == {i \in 1..(Len(s) - Len(sub) + 1) : SubSeq(s, i, i + Len(sub) - 1) = sub}
  IN IF at = {} THEN 0 ELSE CHOOSE i \in at : \A j \in at : i <= j

(* s.split(sub)[0] *)
split_head(s, sub) == IF find(s, sub) = 0 THEN s ELSE SubSeq(s, 1, find(s, sub) - 1)

(* str.startswith *)
startswith(s, prefix) == Len(prefix) <= Len(s) /\ SubSeq(s, 1, Len(prefix)) = prefix

(* extract_sheet_id (gsheet_manager.py and gsheet.py alike) *)
extract_sheet_id(sheet_url_or_id) ==
  IF sheet_url_or_id = <<>> THEN <<>>
  ELSE IF find(sheet_url_or_id, <<"/">>) = 0 THEN sheet_url_or_id
  ELSE IF find(sheet_url_or_id, <<"/", "d", "/">>) # 0
    THEN split_head(SubSeq(sheet_url_or_id, find(sheet_url_or_id, <<"/", "d", "/">>) + 3,
                           Len(sheet_url_or_id)),
                    <<"/">>)
  ELSE sheet_url_or_id

(* f"{sheet_id}_{worksheet_name or 'default'}" *)
cache_key(sheet_id, worksheet_name) ==
  sheet_id \o <<"_">>
  \o (IF worksheet_name = <<>> THEN <<"d", "e", "f", "a", "u", "l", "t">> ELSE worksheet_name)

cache_duration == 300

(* Variant: an entry of exactly cache_duration seconds is still served. *)
is_fresh_at_duration(now, timestamp) == now - timestamp <= cache_duration

(* time.time() - cache_entry['timestamp'] < self.cache_duration *)
is_fresh(now, timestamp) == now - timestamp < cache_duration

Client == [client |-> "gspread"]

(* pd.DataFrame() *)
EmptyFrame == [records |-> 0]

(* client.open_by_key(sheet_id), then spreadsheet.worksheet(name) or       *)
(* spreadsheet.get_worksheet(0): the title of the worksheet, or the        *)
(* exception raised.  up: the provider answers.                            *)
open_worksheet(sh, sheet_id, worksheet_name, up) ==
  IF ~up THEN [error |-> "APIError"]
  ELSE IF sheet_id \notin DOMAIN sh THEN [error |-> "SpreadsheetNotFound"]
  ELSE IF worksheet_name # <<>>
    THEN IF \E n \in DOMAIN sh[sheet_id].titles : sh[sheet_id].titles[n] = worksheet_name
           THEN [title |-> worksheet_name]
           ELSE [error |-> "WorksheetNotFound"]
  ELSE [title |-> sh[sheet_id].titles[1]]

(* GoogleSheetsManager.get_client: the session with its client, or None    *)
(* without credentials.                                                    *)
get_client(ss) ==
  IF Get(ss, "global_gsheets_creds", None) = None THEN [client |-> None, session_state |-> ss]
  ELSE [client |-> Client,
        session_state |-> IF ss.sheets_client = None THEN Set(ss, "sheets_client", Client)
                          ELSE ss]

(* GoogleSheetsManager.get_sheet_data: path tells where the value came     *)
(* from.                                                                   *)
get_sheet_data(ss, sh, now, sheet_id_arg, worksheet_name, use_cache, up) ==
  LET sheet_id == extract_sheet_id(sheet_id_arg)
      key == cache_key(sheet_id, worksheet_name)
      cache == ss.sheets_cache
      c == get_client(ss)
      w == open_worksheet(sh, sheet_id, worksheet_name, up)
  IN IF use_cache /\ key \in DOMAIN cache /\ is_fresh(now, cache[key].timestamp)
       THEN [session_state |-> ss, returned |-> cache[key].data, path |-> "cache"]
     ELSE IF c.client = None
       THEN [session_state |-> ss, returned |-> None, path |-> "no client"]
     ELSE IF "error" \in DOMAIN w
       THEN [session_state |-> c.session_state, returned |-> None, path |-> w.error]
     ELSE LET records == sh[sheet_id].content[w.title]
          IN IF records.records = 0
               THEN [session_state |-> c.session_state, returned |-> EmptyFrame,
                     path |-> "provider"]
               ELSE [session_state |->
                       Set(c.session_state, "sheets_cache",
                           Set(cache, key, [data |-> records, timestamp |-> now])),
                     returned |-> records, path |-> "provider"]

(* A successful write to a worksheet: its records, and one more in its     *)
(* count of writes.                                                        *)
written(sh, sheet_id, title, records) ==
  [sh EXCEPT ![sheet_id].content[title] = [records |-> records, writes |-> @.writes + 1]]

(* if cache_key in cache: del cache[cache_key] *)
invalidate(cache, sheet_id, worksheet_name) ==
  Del(cache, {cache_key(sheet_id, worksheet_name)})

(* GoogleSheetsManager.append_row *)
append_row(ss, sh, sheet_id_arg, worksheet_name, up) ==
  LET sheet_id == extract_sheet_id(sheet_id_arg)
      c == get_client(ss)
      w == open_worksheet(sh, sheet_id, worksheet_name, up)
  IN IF c.client = None THEN [session_state |-> ss, sheets |-> sh, returned |-> FALSE]
     ELSE IF "error" \in DOMAIN w
       THEN [session_state |-> c.session_state, sheets |-> sh, returned |-> FALSE]
     ELSE [session_state |->
             Set(c.session_state, "sheets_cache",
                 invalidate(ss.sheets_cache, sheet_id, worksheet_name)),
           sheets |-> written(sh, sheet_id, w.title, sh[sheet_id].content[w.title].records + 1),
           returned |-> TRUE]

(* GoogleSheetsManager.update_sheet_data with a frame of the given number  *)
(* of rows.  updates: worksheet.update succeeds after worksheet.clear.     *)
update_sheet_data(ss, sh, sheet_id_arg, rows, worksheet_name, up, updates) ==
  LET sheet_id == extract_sheet_id(sheet_id_arg)
      c == get_client(ss)
      w == open_worksheet(sh, sheet_id, worksheet_name, up)
  IN IF c.client = None THEN [session_state |-> ss, sheets |-> sh, returned |-> FALSE]
     ELSE IF "error" \in DOMAIN w
       THEN [session_state |-> c.session_state, sheets |-> sh, returned |-> FALSE]
     ELSE IF ~updates
       THEN [session_state |-> c.session_state,
             sheets |-> [sh EXCEPT ![sheet_id].content[w.title].records = 0],
             returned |-> FALSE]
     ELSE [session_state |->
             Set(c.session_state, "sheets_cache",
                 invalidate(ss.sheets_cache, sheet_id, worksheet_name)),
           sheets |-> written(sh, sheet_id, w.title, rows),
           returned |-> TRUE]

(* GoogleSheetsManager.clear_cache; no argument is the empty text. *)
clear_cache(ss, sheet_id_arg) ==
  IF sheet_id_arg # <<>>
    THEN LET sheet_id == extract_sheet_id(sheet_id_arg)
             keys_to_remove == {k \in DOMAIN ss.sheets_cache : startswith(k, sheet_id)}
         IN Set(ss, "sheets_cache", Del(ss.sheets_cache, keys_to_remove))
    ELSE Set(ss, "sheets_cache", EmptyDict)

----------------------------------------------------------------------------
(* The functions of utils/gsheet.py on the same session; the message of a  *)
(* failure is given by the name of its exception.                          *)

(* get_gsheet_client: the client and the message. *)
get_gsheet_client(ss) ==
  IF "global_gsheets_creds" \notin DOMAIN ss
    THEN [client |-> None, error |-> "Google Sheets credentials not configured",
          session_state |-> ss]
  ELSE IF Get(ss, "sheets_client", None) # None
    THEN [client |-> ss.sheets_client, error |-> "Success", session_state |-> ss]
  ELSE [client |-> Client, error |-> "Success",
        session_state |-> Set(ss, "sheets_client", Client)]

(* get_sheet_data of utils/gsheet.py: the data and the message. *)
gsheet_get_sheet_data(ss, sh, now, sheet_id_arg, worksheet_name, use_cache, up) ==
  LET sheet_id == extract_sheet_id(sheet_id_arg)
      key == cache_key(sheet_id, worksheet_name)
      cache == Get(ss, "sheets_cache", EmptyDict)
      c == get_gsheet_client(ss)
      w == open_worksheet(sh, sheet_id, worksheet_name, up)
  IN IF /\ use_cache
        /\ "sheets_cache" \in DOMAIN ss
        /\ key \in DOMAIN cache
        /\ is_fresh(now, cache[key].timestamp)
       THEN [session_state |-> ss, returned |-> cache[key].data, message |-> "Success (cached)"]
     ELSE IF c.client = None
       THEN [session_state |-> ss, returned |-> None, message |-> c.error]
     ELSE IF "error" \in DOMAIN w
       THEN [session_state |-> c.session_state, returned |-> None, message |-> w.error]
     ELSE LET records == sh[sheet_id].content[w.title]
          IN IF records.records = 0
               THEN [session_state |-> c.session_state,
                     returned |-> EmptyFrame, message |-> "Success (empty sheet)"]
               ELSE [session_state |->
                       Set(c.session_state, "sheets_cache",
                           Set(cache, key, [data |-> records, timestamp |-> now])),
                     returned |-> records, message |-> "Success"]

(* append_row_to_sheet *)
append_row_to_sheet(ss, sh, sheet_id_arg, worksheet_name, up) ==
  LET sheet_id == extract_sheet_id(sheet_id_arg)
      c == get_gsheet_client(ss)
      w == open_worksheet(sh, sheet_id, worksheet_name, up)
  IN IF c.client = None THEN [session_state |-> ss, sheets |-> sh, returned |-> FALSE, message |-> c.error]
     ELSE IF "error" \in DOMAIN w
       THEN [session_state |-> c.session_state, sheets |-> sh, returned |-> FALSE, message |-> w.error]
     ELSE [session_state |->
             IF "sheets_cache" \in DOMAIN ss
               THEN Set(c.session_state, "sheets_cache",
                        invalidate(ss.sheets_cache, sheet_id, worksheet_name))
               ELSE c.session_state,
           sheets |-> written(sh, sheet_id, w.title, sh[sheet_id].content[w.title].records + 1),
           returned |-> TRUE, message |-> "Row appended successfully"]

(* update_sheet_data of utils/gsheet.py *)
gsheet_update_sheet_data(ss, sh, sheet_id_arg, rows, worksheet_name, up, updates) ==
  LET sheet_id == extract_sheet_id(sheet_id_arg)
      c == get_gsheet_client(ss)
      w == open_worksheet(sh, sheet_id, worksheet_name, up)
  IN IF c.client = None THEN [session_state |-> ss, sheets |-> sh, returned |-> FALSE, message |-> c.error]
     ELSE IF "error" \in DOMAIN w
       THEN [session_state |-> c.session_state, sheets |-> sh, returned |-> FALSE, message |-> w.error]
     ELSE IF ~updates
       THEN [session_state |-> c.session_state,
             sheets |-> [sh EXCEPT ![sheet_id].content[w.title].records = 0],
             returned |-> FALSE, message |-> "APIError"]
     ELSE [session_state |->
             IF "sheets_cache" \in DOMAIN ss
               THEN Set(c.session_state, "sheets_cache",
                        invalidate(ss.sheets_cache, sheet_id, worksheet_name))
               ELSE c.session_state,
           sheets |-> written(sh, sheet_id, w.title, rows),
           returned |-> TRUE, message |-> "Sheet updated successfully"]

(* clear_cache of utils/gsheet.py *)
gsheet_clear_cache(ss, sheet_id_arg) ==
  IF "sheets_cache" \notin DOMAIN ss THEN ss
  ELSE clear_cache(ss, sheet_id_arg)

----------------------------------------------------------------------------
----------------------------------------------------------------------------
(* The user session of utils/auth.py and utils/config.py.  A time is the   *)
(* clock's seconds, [at |-> seconds]; a formatted time names the second it *)
(* was taken from.                                                         *)

EightHours == 28800

ThirtyDays == 2592000

Credentials == [type |-> "service_account"]

(* The truth value Python gives a dictionary or a time read from the       *)
(* session, or None in its place.                                          *)
truthy(v) == v # None /\ DOMAIN v # {}

(* GoogleSheetsManager.__init__ *)
GoogleSheetsManager(ss) ==
  LET with_cache == IF "sheets_cache" \notin DOMAIN ss THEN Set(ss, "sheets_cache", EmptyDict)
                    ELSE ss
  IN IF "sheets_client" \notin DOMAIN with_cache THEN Set(with_cache, "sheets_client", None)
     ELSE with_cache

(* init_session_state: every default whose key is absent. *)
init_session_state(ss, now) ==
  LET defaults == [logged_in |-> FALSE, user_name |-> "", user_email |-> "",
                   user_role |-> "guest", login_time |-> None,
                   last_activity |-> [at |-> now], session_expiry |-> None,
                   current_page |-> "Dashboard", theme |-> "light",
                   data_cache |-> EmptyDict, sync_status |-> EmptyDict,
                   sheets_cache |-> EmptyDict, sheets_client |-> None,
                   global_gsheets_creds |-> None, gsheets_creds |-> None]
  IN [k \in DOMAIN defaults \cup DOMAIN ss |-> IF k \in DOMAIN ss THEN ss[k] ELSE defaults[k]]

(* preserve_gsheets_config of utils/config.py *)
preserve_gsheets_config(ss) ==
  IF "global_gsheets_creds" \in DOMAIN ss
    THEN LET aliased == Set(ss, "gsheets_creds", ss.global_gsheets_creds)
             absent == {"sheets_cache", "data_cache", "sync_status"} \ DOMAIN ss
         IN [k \in DOMAIN aliased \cup absent |->
               IF k \in absent THEN EmptyDict ELSE aliased[k]]
    ELSE ss

create_user_session(ss, user_data, remember_me, now) ==
  LET expiry_time == IF remember_me THEN now + ThirtyDays ELSE now + EightHours
      user == [logged_in |-> TRUE, user_name |-> user_data.name,
               user_email |-> user_data.email, user_role |-> user_data.role,
               login_time |-> [strftime |-> now], last_login |-> [strftime |-> now],
               last_activity |-> [at |-> now], session_expiry |-> [at |-> expiry_time]]
  IN preserve_gsheets_config(
       [k \in DOMAIN ss \cup DOMAIN user |-> IF k \in DOMAIN user THEN user[k] ELSE ss[k]])

user_session_keys ==
  {"logged_in", "user_name", "user_email", "user_role", "login_time", "last_login",
   "last_activity", "session_expiry"}

(* Variant: the session is emptied and the credentials put back. *)
logout_user_emptied(ss) ==
  LET gsheets_creds == Get(ss, "global_gsheets_creds", None)
      reset == [logged_in |-> FALSE, current_page |-> "Dashboard"]
  IN IF truthy(gsheets_creds)
       THEN Set(Set(reset, "global_gsheets_creds", gsheets_creds),
                "gsheets_creds", gsheets_creds)
       ELSE reset

logout_user(ss) ==
  LET gsheets_creds == Get(ss, "global_gsheets_creds", None)
      sheets_cache == Get(ss, "sheets_cache", EmptyDict)
      data_cache == Get(ss, "data_cache", EmptyDict)
      reset == Set(Set(Del(ss, user_session_keys), "logged_in", FALSE),
                   "current_page", "Dashboard")
  IN IF truthy(gsheets_creds)
       THEN Set(Set(Set(Set(reset, "global_gsheets_creds", gsheets_creds),
                        "gsheets_creds", gsheets_creds),
                    "sheets_cache", sheets_cache),
                "data_cache", data_cache)
       ELSE reset

(* check_session_validity: the session and the value returned. *)
check_session_validity(ss, now) ==
  IF ~Get(ss, "logged_in", FALSE) THEN [session_state |-> ss, returned |-> FALSE]
  ELSE LET session_expiry == Get(ss, "session_expiry", None)
       IN IF truthy(session_expiry) /\ now > session_expiry.at
            THEN [session_state |-> logout_user(ss), returned |-> FALSE]
            ELSE [session_state |-> Set(ss, "last_activity", [at |-> now]),
                  returned |-> TRUE]

(* The Logout button of the sidebar. *)
sidebar_logout(ss) ==
  LET gsheets_creds == Get(ss, "global_gsheets_creds", None)
      out == logout_user(ss)
  IN IF truthy(gsheets_creds)
       THEN Set(Set(out, "global_gsheets_creds", gsheets_creds),
                "gsheets_creds", gsheets_creds)
       ELSE out

(* The login page: the upload of a service account that the provider       *)
(* accepts, the demo access, and the removal of the configuration.         *)
connect(ss, creds_data, now) ==
  LET set == [global_gsheets_creds |-> creds_data, gsheets_creds |-> creds_data,
              logged_in |-> TRUE, user_name |-> "AIVACEO User", user_role |-> "admin",
              login_time |-> [strftime |-> now], last_login |-> [strftime |-> now],
              sheets_cache |-> EmptyDict, data_cache |-> EmptyDict,
              sync_status |-> EmptyDict]
  IN [k \in DOMAIN ss \cup DOMAIN set |-> IF k \in DOMAIN set THEN set[k] ELSE ss[k]]

demo_access(ss, now) ==
  LET set == [logged_in |-> TRUE, user_name |-> "AIVACEO Demo User", user_role |-> "demo",
              login_time |-> [strftime |-> now], last_login |-> [strftime |-> now],
              sheets_cache |-> EmptyDict, data_cache |-> EmptyDict,
              sync_status |-> EmptyDict]
  IN [k \in DOMAIN ss \cup DOMAIN set |-> IF k \in DOMAIN set THEN set[k] ELSE ss[k]]

remove_configuration(ss) ==
  Del(ss, {"global_gsheets_creds", "gsheets_creds", "sheets_cache", "sheets_client",
           "data_cache", "sync_status", "logged_in"})

(* The datasets a scanner is constructed on *)

ColNames == <<"a", "b", "c">>

Values(maxv) == {NULL} \cup (0..maxv)

Dtypes == {Float64, Object, Datetime64}

(* One column of any type, up to MaxLen rows over NULL, 0..MaxVal. *)
OneColumn ==
  UNION {{DataFrame(n, <<Column(ColNames[1], t, v)>>) :
            t \in Dtypes, v \in [1..n -> Values(MaxVal)]} : n \in 0..MaxLen}

(* Two columns, numeric or text, up to MaxPairRows rows over NULL, 0, 1. *)
TwoColumns ==
  UNION {{DataFrame(n, <<Column(ColNames[1], t1, v1), Column(ColNames[2], t2, v2)>>) :
            t1 \in {Float64, Object}, t2 \in {Float64, Object},
            v1 \in [1..n -> Values(1)], v2 \in [1..n -> Values(1)]} : n \in 0..MaxPairRows}

(* Three numeric columns without missing values, MaxRows rows over 0, 1. *)
ThreeNumeric ==
  {DataFrame(MaxRows, <<Column(ColNames[1], Float64, v1), Column(ColNames[2], Float64, v2),
                        Column(ColNames[3], Float64, v3)>>) :
     v1 \in [1..MaxRows -> 0..1], v2 \in [1..MaxRows -> 0..1], v3 \in [1..MaxRows -> 0..1]}

(* a = 0, 1, 2, 3 against every ordering of the same values: the           *)
(* coefficients -1, -0.8, ..., 0.8, 1.                                     *)
Orderings ==
  {DataFrame(4, <<Column(ColNames[1], Float64, <<0, 1, 2, 3>>),
                  Column(ColNames[2], Float64, v)>>) :
     v \in {w \in [1..4 -> 0..3] : \A i, j \in 1..4 : i # j => w[i] # w[j]}}

(* No column at all, with or without an index. *)
NoColumns == {DataFrame(n, <<>>) : n \in 0..MaxRows}

(* The datasets of the documented scenarios. *)
AgeExample == DataFrame(5, <<Column("age", Float64, <<20, 21, 22, 23, 1000>>)>>)

IdenticalExample ==
  DataFrame(5, <<Column("a", Float64, <<1, 2, 3, 4, 5>>),
                 Column("b", Float64, <<1, 2, 3, 4, 5>>)>>)

NameExample == DataFrame(5, <<Column("name", Object, <<1, 2, 3, 4, 5>>)>>)

(* Up to MaxWide numeric columns of nine rows, each one of three shapes:   *)
(* 0..8; eight zeros and 1 (one outlier in nine); five missing values,     *)
(* three zeros and 1 (over half missing, one outlier in four).             *)
WideNames == <<"a", "b", "c", "d", "e">>

Shapes ==
  {<<0, 1, 2, 3, 4, 5, 6, 7, 8>>,
   <<0, 0, 0, 0, 0, 0, 0, 0, 1>>,
   <<NULL, NULL, NULL, NULL, NULL, 0, 0, 0, 1>>}

WideTables ==
  UNION {{DataFrame(9, [i \in 1..k |-> Column(WideNames[i], Float64, v[i])]) :
            v \in [1..k -> Shapes]} : k \in 1..MaxWide}

(* One text column of n rows, all distinct or the last one a repeat: 100,  *)
(* 90, 90.9, 95 and 95.2 per cent unique, on either side of ten rows.      *)
IdentifierTables ==
  {DataFrame(n, <<Column("id", Object, [i \in 1..n |-> IF i > n - r THEN 1 ELSE i])>>) :
     n \in {10, 11, 20, 21}, r \in 0..1}

(* A column of any type over NULL, 0, 1 beside the numeric column 0, 1,    *)
(* ..., up to MaxSessionRows rows (SpecSession).                           *)
SessionTables ==
  UNION {{DataFrame(n, <<Column(ColNames[1], t, v),
                         Column(ColNames[2], Float64, [i \in 1..n |-> i - 1])>>) :
            t \in Dtypes, v \in [1..n -> Values(1)]} : n \in 0..MaxSessionRows}

(* One or two columns, the first of any type, of up to MaxReportRows rows  *)
(* over NULL and 0 (SpecReport).                                           *)
ReportTables ==
  UNION {{DataFrame(n, [i \in 1..k |->
                          Column(ColNames[i], IF i = 1 THEN t ELSE Float64, v[i])]) :
            t \in Dtypes, v \in [1..k -> [1..n -> Values(0)]]} :
         n \in 0..MaxReportRows, k \in 1..2}

(* Two columns of any type, up to MaxChartRows rows over NULL and 0        *)
(* (SpecCharts).                                                           *)
ChartTables ==
  UNION {{DataFrame(n, <<Column(ColNames[1], t1, v1), Column(ColNames[2], t2, v2)>>) :
            t1 \in Dtypes, t2 \in Dtypes,
            v1 \in [1..n -> Values(0)], v2 \in [1..n -> Values(0)]} : n \in 0..MaxChartRows}

(* Up to MaxChartColumns numeric or text columns, of no row or of one row  *)
(* over NULL and 0 (SpecOverview).                                         *)
OverviewNames == <<"a", "b", "c", "d", "e", "f", "g">>

OverviewTables ==
  UNION {{DataFrame(n, [i \in 1..k |-> Column(OverviewNames[i], t[i], v[i])]) :
            t \in [1..k -> {Float64, Object}], v \in [1..k -> [1..n -> Values(0)]]} :
         n \in 0..1, k \in 0..MaxChartColumns}

(* The datasets insights are generated on (SpecInsights). *)
InsightTables == TwoColumns \cup NoColumns \cup WideTables \cup IdentifierTables

(* One numeric column: up to two missing values, then 4k + 1 rows, three   *)
(* in four of them 0 and the others k distinct values going up or down,    *)
(* all of them outliers; k from one under the cap on the outlier values to *)
(* two over it (SpecCap).                                                  *)
CapExamples ==
  {DataFrame(m + 4 * k + 1,
             <<Column("v", Float64,
                      [i \in 1..(m + 4 * k + 1) |->
                         IF i <= m THEN NULL
                         ELSE IF (i - m) % 4 # 0 THEN 0
                         ELSE IF up THEN i - m ELSE 4 * k + 1 - (i - m)])>>) :
     k \in (OutlierCap - 1)..(OutlierCap + 2), m \in 0..2, up \in BOOLEAN}

(* Tables of several columns (Spec) and single columns (SpecColumn). *)
Tables ==
  TwoColumns \cup ThreeNumeric \cup Orderings \cup NoColumns \cup {IdenticalExample}

SingleColumns == OneColumn \cup {AgeExample, NameExample}

(* The thresholds a caller passes to find_correlations; 1/2 is the default. *)
DefaultThreshold == Rat(1, 2)

Thresholds == {Rat(0, 1), DefaultThreshold, Rat(1, 1)}

(* DataScanner.__init__(df): the scanner holds a copy of the dataset,      *)
(* VisualizationEngine.__init__(df) the caller's dataset itself.  The      *)
(* caller has kept no result yet.                                          *)
__init__(datasets) ==
  /\ df \in datasets
  /\ analysis_results = <<>>
  /\ insights = <<>>
  /\ viz_df = df
  /\ saved = <<>>
  /\ session_state = <<>>
  /\ sheets = <<>>
  /\ clock = 0
  /\ op = "__init__"
  /\ arg = <<>>
  /\ result = <<>>

Init == __init__(Tables)

InitColumn == __init__(SingleColumns)

InitInsights == __init__(InsightTables)

InitSession == __init__(SessionTables)

InitReport == __init__(ReportTables)

InitCap == __init__(CapExamples \cup {AgeExample})

(* The caller's note, once it has kept a result, of what ran afterwards:   *)
(* an analysis of another column, or another operation.                    *)
since(s, name, column) ==
  IF s = <<>> \/ (name = "analyze_column" /\ column = s.column) THEN s
  ELSE [s EXCEPT !.between = @ \cup {IF name = "analyze_column" THEN name ELSE "other"}]

ScanOverview ==
  /\ op' = "scan_overview"
  /\ arg' = <<>>
  /\ result' = scan_overview(df)
  /\ saved' = since(saved, "scan_overview", "")
  /\ UNCHANGED <<session_state, sheets, clock, df, analysis_results, insights, viz_df>>

(* Variant: the rows where the column is missing are dropped from the     *)
(* stored dataset.                                                         *)
AnalyzeColumn_dropping_rows ==
  \E column \in ColumnNames(df) \cup {"nosuch"} :
    /\ op' = "analyze_column"
    /\ arg' = [column |-> column]
    /\ result' = analyze_column(df, column)
    /\ saved' = since(saved, "analyze_column", column)
    /\ df' = IF column \notin ColumnNames(df) THEN df
             ELSE LET keep == SelectSeq([r \in 1..df.nrows |-> r],
                                        LAMBDA r : series(df, column)[r] # NULL)
                  IN DataFrame(Len(keep),
                               [i \in DOMAIN df.columns |->
                                  Column(df.columns[i].name, df.columns[i].dtype,
                                         [n \in DOMAIN keep |-> df.columns[i].values[keep[n]]])])
    /\ UNCHANGED <<session_state, sheets, clock, analysis_results, insights, viz_df>>

AnalyzeColumn ==
  \E column \in ColumnNames(df) \cup {"nosuch"} :
    /\ op' = "analyze_column"
    /\ arg' = [column |-> column]
    /\ result' = analyze_column(df, column)
    /\ saved' = since(saved, "analyze_column", column)
    /\ UNCHANGED <<session_state, sheets, clock, df, analysis_results, insights, viz_df>>

FindCorrelations ==
  \E threshold \in Thresholds :
    /\ op' = "find_correlations"
    /\ arg' = [threshold |-> threshold]
    /\ result' = find_correlations(df, threshold)
    /\ saved' = since(saved, "find_correlations", "")
    /\ UNCHANGED <<session_state, sheets, clock, df, analysis_results, insights, viz_df>>

DetectPatterns ==
  /\ op' = "detect_patterns"
  /\ arg' = <<>>
  /\ result' = detect_patterns(df)
  /\ saved' = since(saved, "detect_patterns", "")
  /\ UNCHANGED <<session_state, sheets, clock, df, analysis_results, insights, viz_df>>

GenerateInsights ==
  /\ op' = "generate_insights"
  /\ arg' = <<>>
  /\ result' = generate_insights(df)
  /\ saved' = since(saved, "generate_insights", "")
  /\ UNCHANGED <<session_state, sheets, clock, df, analysis_results, insights, viz_df>>

Next == ScanOverview \/ AnalyzeColumn \/ FindCorrelations \/ DetectPatterns

Spec == Init /\ [][Next]_vars

SpecColumn == InitColumn /\ [][Next]_vars

(* DataScannerUI._render_insights_tab, reached for a dataset that is not   *)
(* empty: the insights, the patterns and the overview it holds, and the    *)
(* recommendations it shows.                                               *)
RecommendBelow == 90

recommendations(overview) ==
  (IF RLt(overview.data_quality_score, RInt(RecommendBelow)) THEN <<"Data Cleaning">> ELSE <<>>)
  \o (IF overview.duplicate_rows > 0 THEN <<"Deduplication">> ELSE <<>>)
  \o (IF Len(overview.numeric_columns) > 1 THEN <<"Correlation Analysis">> ELSE <<>>)
  \o (IF Len(overview.categorical_columns) > 0 THEN <<"Category Analysis">> ELSE <<>>)
  \o (IF Len(overview.datetime_columns) > 0 THEN <<"Time Series Analysis">> ELSE <<>>)

RenderInsightsTab ==
  /\ ~empty(df)
  /\ op' = "_render_insights_tab"
  /\ arg' = <<>>
  /\ result' = [insights |-> generate_insights(df),
                patterns |-> detect_patterns(df),
                overview |-> scan_overview(df),
                recommendations |-> recommendations(scan_overview(df))]
  /\ saved' = since(saved, "_render_insights_tab", "")
  /\ UNCHANGED <<session_state, sheets, clock, df, analysis_results, insights, viz_df>>

(* The caller keeps the analysis it has just been given. *)
SaveAnalysis ==
  /\ op = "analyze_column"
  /\ saved' = [column |-> arg.column, result |-> result, between |-> {}]
  /\ UNCHANGED <<session_state, sheets, clock, df, analysis_results, insights, viz_df, op, arg, result>>

(* Variant: the date column of the stored dataset is converted in place. *)
CreateTimeSeriesChart_in_place ==
  \E date_column \in ColumnNames(viz_df) \cup {"nosuch"},
     value_column \in ColumnNames(viz_df) \cup {"nosuch"} :
    /\ op' = "create_time_series_chart"
    /\ arg' = [date_column |-> date_column, value_column |-> value_column]
    /\ result' = create_time_series_chart(viz_df, date_column, value_column)
    /\ viz_df' = IF date_column \in ColumnNames(viz_df)
                   THEN [viz_df EXCEPT !.columns =
                           [i \in DOMAIN @ |-> IF @[i].name = date_column
                                                 THEN to_datetime(@[i]) ELSE @[i]]]
                   ELSE viz_df
    /\ UNCHANGED <<session_state, sheets, clock, df, analysis_results, insights, saved>>

CreateTimeSeriesChart ==
  \E date_column \in ColumnNames(viz_df) \cup {"nosuch"},
     value_column \in ColumnNames(viz_df) \cup {"nosuch"} :
    /\ op' = "create_time_series_chart"
    /\ arg' = [date_column |-> date_column, value_column |-> value_column]
    /\ result' = create_time_series_chart(viz_df, date_column, value_column)
    /\ UNCHANGED <<session_state, sheets, clock, df, analysis_results, insights, viz_df, saved>>

SpecCap == InitCap /\ [][Next]_vars

NextInsights == Next \/ GenerateInsights

(* The chart operations of the engine of utils/data_scanner.py. *)
CreateOverviewCharts ==
  /\ op' = "data_scanner.create_overview_charts"
  /\ arg' = <<>>
  /\ result' = create_overview_charts(viz_df)
  /\ UNCHANGED <<session_state, sheets, clock, df, analysis_results, insights, viz_df, saved>>

CreateColumnAnalysisChart ==
  \E column \in ColumnNames(viz_df) \cup {"nosuch"} :
    /\ op' = "data_scanner.create_column_analysis_chart"
    /\ arg' = [column |-> column]
    /\ result' = create_column_analysis_chart(viz_df, column)
    /\ UNCHANGED <<session_state, sheets, clock, df, analysis_results, insights, viz_df, saved>>

CreateComparisonCharts ==
  \E x_col \in ColumnNames(viz_df) \cup {"nosuch"},
     y_col \in ColumnNames(viz_df) \cup {"nosuch"} :
    /\ op' = "data_scanner.create_comparison_charts"
    /\ arg' = [x_col |-> x_col, y_col |-> y_col]
    /\ result' \in create_comparison_charts(viz_df, x_col, y_col)
    /\ UNCHANGED <<session_state, sheets, clock, df, analysis_results, insights, viz_df, saved>>

(* The chart operations of the engine of utils/visualization_engine.py. *)
EngineCreateOverviewCharts ==
  /\ op' = "visualization_engine.create_overview_charts"
  /\ arg' = <<>>
  /\ result' = engine_create_overview_charts(viz_df)
  /\ UNCHANGED <<session_state, sheets, clock, df, analysis_results, insights, viz_df, saved>>

CreateColumnChart ==
  \E column_name \in ColumnNames(viz_df) \cup {"nosuch"}, chart_type \in ChartTypes :
    /\ op' = "visualization_engine.create_column_chart"
    /\ arg' = [column_name |-> column_name, chart_type |-> chart_type]
    /\ result' = create_column_chart(viz_df, column_name, chart_type)
    /\ UNCHANGED <<session_state, sheets, clock, df, analysis_results, insights, viz_df, saved>>

CreateComparisonChart ==
  \E column1 \in ColumnNames(viz_df) \cup {"nosuch"},
     column2 \in ColumnNames(viz_df) \cup {"nosuch"},
     chart_type \in ComparisonTypes :
    /\ op' = "visualization_engine.create_comparison_chart"
    /\ arg' = [column1 |-> column1, column2 |-> column2, chart_type |-> chart_type]
    /\ result' \in create_comparison_chart(viz_df, column1, column2, chart_type)
    /\ UNCHANGED <<session_state, sheets, clock, df, analysis_results, insights, viz_df, saved>>

----------------------------------------------------------------------------
(* The sheets of the provider and the ways to name them *)

SheetAB == <<"a", "b">>

SheetABC == <<"a", "b", "c">>

UnknownSheet == <<"z">>

(* A URL of the sheet ab: ".../d/ab/edit". *)
UrlAB == <<"u", "/", "d", "/", "a", "b", "/", "e">>

Sheet1 == <<"S", "1">>

NoName == <<>>

WorksheetNames == {NoName, Sheet1, <<"n">>}

(* A spreadsheet of the one worksheet Sheet1 with the given records. *)
Spreadsheet(records) ==
  [titles |-> <<Sheet1>>,
   content |-> [t \in {Sheet1} |-> [records |-> records, writes |-> 0]]]

SheetInputs == DOMAIN sheets \cup {UrlAB, UnknownSheet}

(* No scanner is at work in the session. *)
NoScanner ==
  /\ df = DataFrame(0, <<>>)
  /\ analysis_results = <<>>
  /\ insights = <<>>
  /\ viz_df = df
  /\ saved = <<>>

(* GoogleSheetsManager.__init__ on a session with or without credentials,  *)
(* over the given sheets of one or no record each.                         *)
InitSheets(ids) ==
  /\ NoScanner
  /\ \E configured \in BOOLEAN :
       session_state =
         [sheets_cache |-> EmptyDict, sheets_client |-> None]
         @@ (IF configured THEN [global_gsheets_creds |-> [type |-> "service_account"]]
             ELSE <<>>)
  /\ sheets \in [ids -> {Spreadsheet(0), Spreadsheet(1)}]
  /\ clock = 0
  /\ op = "__init__"
  /\ arg = <<>>
  /\ result = <<>>

(* Time passes. *)
TickSeconds == 150

Tick ==
  /\ clock < MaxTicks * TickSeconds
  /\ clock' = clock + TickSeconds
  /\ UNCHANGED <<df, analysis_results, insights, viz_df, saved, session_state, sheets,
                 op, arg, result>>

GetSheetData ==
  \E sheet_id \in SheetInputs, worksheet_name \in WorksheetNames,
     use_cache \in BOOLEAN, up \in BOOLEAN :
    LET r == get_sheet_data(session_state, sheets, clock, sheet_id, worksheet_name, use_cache, up)
    IN /\ op' = "GoogleSheetsManager.get_sheet_data"
       /\ arg' = [sheet_id |-> sheet_id, worksheet_name |-> worksheet_name,
                  use_cache |-> use_cache]
       /\ result' = [returned |-> r.returned, path |-> r.path]
       /\ session_state' = r.session_state
       /\ UNCHANGED <<df, analysis_results, insights, viz_df, saved, sheets, clock>>

AppendRow ==
  \E sheet_id \in SheetInputs, worksheet_name \in WorksheetNames, up \in BOOLEAN :
    LET r == append_row(session_state, sheets, sheet_id, worksheet_name, up)
    IN /\ \A id \in DOMAIN sheets : sheets[id].content[Sheet1].writes < MaxWrites
       /\ op' = "GoogleSheetsManager.append_row"
       /\ arg' = [sheet_id |-> sheet_id, worksheet_name |-> worksheet_name]
       /\ result' = r.returned
       /\ session_state' = r.session_state
       /\ sheets' = r.sheets
       /\ UNCHANGED <<df, analysis_results, insights, viz_df, saved, clock>>

UpdateSheetData ==
  \E sheet_id \in SheetInputs, worksheet_name \in WorksheetNames, rows \in 0..1,
     up \in BOOLEAN, updates \in BOOLEAN :
    LET r == update_sheet_data(session_state, sheets, sheet_id, rows, worksheet_name,
                               up, updates)
    IN /\ \A id \in DOMAIN sheets : sheets[id].content[Sheet1].writes < MaxWrites
       /\ op' = "GoogleSheetsManager.update_sheet_data"
       /\ arg' = [sheet_id |-> sheet_id, worksheet_name |-> worksheet_name, rows |-> rows]
       /\ result' = r.returned
       /\ session_state' = r.session_state
       /\ sheets' = r.sheets
       /\ UNCHANGED <<df, analysis_results, insights, viz_df, saved, clock>>

ClearCache ==
  \E sheet_id \in DOMAIN sheets \cup {UrlAB, <<>>} :
    /\ op' = "GoogleSheetsManager.clear_cache"
    /\ arg' = [sheet_id |-> sheet_id]
    /\ result' = None
    /\ session_state' = clear_cache(session_state, sheet_id)
    /\ UNCHANGED <<df, analysis_results, insights, viz_df, saved, sheets, clock>>

GsheetGetSheetData ==
  \E sheet_id \in SheetInputs, worksheet_name \in WorksheetNames,
     use_cache \in BOOLEAN, up \in BOOLEAN :
    LET r == gsheet_get_sheet_data(session_state, sheets, clock, sheet_id, worksheet_name,
                                   use_cache, up)
    IN /\ op' = "gsheet.get_sheet_data"
       /\ arg' = [sheet_id |-> sheet_id, worksheet_name |-> worksheet_name,
                  use_cache |-> use_cache]
       /\ result' = [returned |-> r.returned, message |-> r.message]
       /\ session_state' = r.session_state
       /\ UNCHANGED <<df, analysis_results, insights, viz_df, saved, sheets, clock>>

AppendRowToSheet ==
  \E sheet_id \in SheetInputs, worksheet_name \in WorksheetNames, up \in BOOLEAN :
    LET r == append_row_to_sheet(session_state, sheets, sheet_id, worksheet_name, up)
    IN /\ \A id \in DOMAIN sheets : sheets[id].content[Sheet1].writes < MaxWrites
       /\ op' = "gsheet.append_row_to_sheet"
       /\ arg' = [sheet_id |-> sheet_id, worksheet_name |-> worksheet_name]
       /\ result' = [returned |-> r.returned, message |-> r.message]
       /\ session_state' = r.session_state
       /\ sheets' = r.sheets
       /\ UNCHANGED <<df, analysis_results, insights, viz_df, saved, clock>>

GsheetUpdateSheetData ==
  \E sheet_id \in SheetInputs, worksheet_name \in WorksheetNames, rows \in 0..1,
     up \in BOOLEAN, updates \in BOOLEAN :
    LET r == gsheet_update_sheet_data(session_state, sheets, sheet_id, rows, worksheet_name,
                                      up, updates)
    IN /\ \A id \in DOMAIN sheets : sheets[id].content[Sheet1].writes < MaxWrites
       /\ op' = "gsheet.update_sheet_data"
       /\ arg' = [sheet_id |-> sheet_id, worksheet_name |-> worksheet_name, rows |-> rows]
       /\ result' = [returned |-> r.returned, message |-> r.message]
       /\ session_state' = r.session_state
       /\ sheets' = r.sheets
       /\ UNCHANGED <<df, analysis_results, insights, viz_df, saved, clock>>

GsheetClearCache ==
  \E sheet_id \in DOMAIN sheets \cup {UrlAB, <<>>} :
    /\ op' = "gsheet.clear_cache"
    /\ arg' = [sheet_id |-> sheet_id]
    /\ result' = None
    /\ session_state' = gsheet_clear_cache(session_state, sheet_id)
    /\ UNCHANGED <<df, analysis_results, insights, viz_df, saved, sheets, clock>>

(* Reads as time passes (SpecCache). *)
InitCache == InitSheets({SheetAB})

NextCache == Tick \/ GetSheetData \/ GsheetGetSheetData

SpecCache == InitCache /\ [][NextCache]_vars

(* Reads and writes of one sheet (SpecWrites). *)
InitWrites == InitSheets({SheetAB})

NextWrites ==
  \/ GetSheetData
  \/ AppendRow
  \/ UpdateSheetData
  \/ GsheetGetSheetData
  \/ AppendRowToSheet
  \/ GsheetUpdateSheetData

SpecWrites == InitWrites /\ [][NextWrites]_vars

(* Reads of two sheets and the clearing of the cache (SpecClear). *)
InitClear == InitSheets({SheetAB, SheetABC})

NextClear == GetSheetData \/ GsheetGetSheetData \/ ClearCache \/ GsheetClearCache

SpecClear == InitClear /\ [][NextClear]_vars

(* The session of the application: app.py runs init_session_state at the   *)
(* start of every run of the script, shows the login page to a user who is *)
(* not logged in and the sidebar and the pages to one who is.  The         *)
(* functions of utils/auth.py are also called on the session as it is.     *)
Users == {[name |-> "Ann", email |-> "ann@example.com", role |-> "admin"]}

InitAuth ==
  /\ NoScanner
  /\ session_state = init_session_state(<<>>, 0)
  /\ sheets = [id \in {SheetAB} |-> Spreadsheet(1)]
  /\ clock = 0
  /\ op = "__init__"
  /\ arg = <<>>
  /\ result = <<>>

AuthFrame == UNCHANGED <<df, analysis_results, insights, viz_df, saved, sheets, clock>>

(* Eight hours or thirty days pass. *)
Wait ==
  \E seconds \in {EightHours, ThirtyDays} :
    /\ clock < MaxWaits * EightHours
    /\ clock' = clock + seconds
    /\ UNCHANGED <<df, analysis_results, insights, viz_df, saved, session_state, sheets,
                   op, arg, result>>

Connect ==
  LET ss == init_session_state(session_state, clock)
  IN /\ ~ss.logged_in
     /\ ~truthy(ss.global_gsheets_creds)
     /\ op' = "show_login.connect"
     /\ arg' = [creds_data |-> Credentials]
     /\ result' = None
     /\ session_state' = connect(ss, Credentials, clock)
     /\ AuthFrame

DemoAccess ==
  LET ss == init_session_state(session_state, clock)
  IN /\ ~ss.logged_in
     /\ op' = "show_login.demo"
     /\ arg' = <<>>
     /\ result' = None
     /\ session_state' = demo_access(ss, clock)
     /\ AuthFrame

RemoveConfiguration ==
  LET ss == init_session_state(session_state, clock)
  IN /\ ~ss.logged_in
     /\ truthy(ss.global_gsheets_creds)
     /\ op' = "show_login.remove"
     /\ arg' = <<>>
     /\ result' = None
     /\ session_state' = remove_configuration(ss)
     /\ AuthFrame

(* A page reads the sheet through a manager of its own. *)
PageGetSheetData ==
  \E up \in BOOLEAN :
    LET ss == init_session_state(session_state, clock)
        r == get_sheet_data(GoogleSheetsManager(ss), sheets, clock, SheetAB, NoName, TRUE, up)
    IN /\ ss.logged_in
       /\ op' = "GoogleSheetsManager.get_sheet_data"
       /\ arg' = [sheet_id |-> SheetAB, worksheet_name |-> NoName, use_cache |-> TRUE]
       /\ result' = [returned |-> r.returned, path |-> r.path]
       /\ session_state' = r.session_state
       /\ AuthFrame

SidebarLogout ==
  LET ss == init_session_state(session_state, clock)
  IN /\ ss.logged_in
     /\ op' = "render_quick_actions_card.logout"
     /\ arg' = <<>>
     /\ result' = None
     /\ session_state' = sidebar_logout(ss)
     /\ AuthFrame

CreateUserSession ==
  \E user_data \in Users, remember_me \in BOOLEAN :
    /\ op' = "create_user_session"
    /\ arg' = [user_data |-> user_data, remember_me |-> remember_me]
    /\ result' = [returned |-> TRUE]
    /\ session_state' = create_user_session(session_state, user_data, remember_me, clock)
    /\ AuthFrame

CheckSessionValidity ==
  LET r == check_session_validity(session_state, clock)
  IN /\ op' = "check_session_validity"
     /\ arg' = <<>>
     /\ result' = [returned |-> r.returned]
     /\ session_state' = r.session_state
     /\ AuthFrame

LogoutUser ==
  /\ op' = "logout_user"
  /\ arg' = <<>>
  /\ result' = [returned |-> TRUE]
  /\ session_state' = logout_user(session_state)
  /\ AuthFrame

NextAuth ==
  \/ Wait
  \/ Connect
  \/ DemoAccess
  \/ RemoveConfiguration
  \/ PageGetSheetData
  \/ SidebarLogout
  \/ CreateUserSession
  \/ CheckSessionValidity
  \/ LogoutUser

SpecAuth == InitAuth /\ [][NextAuth]_vars

InitCharts == __init__(ChartTables)

NextCharts ==
  \/ CreateColumnAnalysisChart
  \/ CreateColumnChart
  \/ CreateComparisonCharts
  \/ CreateComparisonChart

SpecCharts == InitCharts /\ [][NextCharts]_vars

InitOverview == __init__(OverviewTables)

NextOverview == CreateOverviewCharts \/ EngineCreateOverviewCharts

SpecOverview == InitOverview /\ [][NextOverview]_vars

NextReport == Next \/ RenderInsightsTab

SpecReport == InitReport /\ [][NextReport]_vars

SpecInsights == InitInsights /\ [][NextInsights]_vars

NextSession == Next \/ GenerateInsights \/ CreateTimeSeriesChart \/ SaveAnalysis

SpecSession == InitSession /\ [][NextSession]_vars

----------------------------------------------------------------------------
(* Vocabulary of the properties: the documented quantities, stated from    *)
(* the dataset alone and not through the operators of the code.            *)

Called(name) == op = name

NumericColumnAnalysed ==
  /\ Called("analyze_column")
  /\ arg.column \in ColumnNames(df)
  /\ dtype_of(df, arg.column) = Float64
  /\ \E i \in DOMAIN series(df, arg.column) : series(df, arg.column)[i] # NULL

(* The positions of the non-missing values of the analysed column. *)
Present == {i \in DOMAIN series(df, arg.column) : series(df, arg.column)[i] # NULL}

ValueAt(i) == series(df, arg.column)[i]

(* The k-th smallest non-missing value, by rank. *)
KthSmallest(k) ==
  CHOOSE v \in {ValueAt(i) : i \in Present} :
    /\ Cardinality({i \in Present : ValueAt(i) < v}) < k
    /\ Cardinality({i \in Present : ValueAt(i) <= v}) >= k

(* The quartile of weight w/4 (w = 1 or 3) of the non-missing values. *)
Quartile(w) ==
  LET h == w * (Cardinality(Present) - 1)
      lo == h \div 4
      fr == h % 4
  IN IF fr = 0 THEN RInt(KthSmallest(lo + 1))
     ELSE Rat((4 - fr) * KthSmallest(lo + 1) + fr * KthSmallest(lo + 2), 4)

LowerFence == RSub(Quartile(1), RMul(Rat(3, 2), RSub(Quartile(3), Quartile(1))))

UpperFence == RAdd(Quartile(3), RMul(Rat(3, 2), RSub(Quartile(3), Quartile(1))))

Cells == df.nrows * Len(df.columns)

MissingCells ==
  Cardinality({<<i, r>> \in (DOMAIN df.columns) \X (1..df.nrows) : df.columns[i].values[r] = NULL})

NumericIndexes == {i \in DOMAIN df.columns : df.columns[i].dtype = Float64}

(* Pearson's r of columns i and j from the deviations about the means of   *)
(* the rows where both hold a value, each scaled by the number of rows.    *)
Paired(i, j) ==
  {r \in 1..df.nrows : df.columns[i].values[r] # NULL /\ df.columns[j].values[r] # NULL}

RECURSIVE SumOver(_, _)
SumOver(S, f) ==
  IF S = {} THEN 0 ELSE LET r == CHOOSE r \in S : TRUE IN f[r] + SumOver(S \ {r}, f)

Deviation(i, j, c) ==
  [r \in Paired(i, j) |->
     Cardinality(Paired(i, j)) * df.columns[c].values[r]
       - SumOver(Paired(i, j), [q \in Paired(i, j) |-> df.columns[c].values[q]])]

CoMoment(i, j, c1, c2) ==
  SumOver(Paired(i, j), [r \in Paired(i, j) |-> Deviation(i, j, c1)[r] * Deviation(i, j, c2)[r]])

PearsonDefined(i, j) == CoMoment(i, j, i, i) * CoMoment(i, j, j, j) # 0

(* |r| >= t, for a rational t *)
PearsonAtLeast(i, j, t) ==
  /\ PearsonDefined(i, j)
  /\ \/ t.num <= 0
     \/ CoMoment(i, j, i, j) * CoMoment(i, j, i, j) * t.den * t.den
          >= t.num * t.num * CoMoment(i, j, i, i) * CoMoment(i, j, j, j)

Reported == {n \in DOMAIN result.strong_correlations : TRUE}

ReportsPair(n, i, j) ==
  /\ result.strong_correlations[n].column1 = df.columns[i].name
  /\ result.strong_correlations[n].column2 = df.columns[j].name

Correlated == Called("find_correlations") /\ "strong_correlations" \in DOMAIN result

----------------------------------------------------------------------------
(* C1: for a numeric column with a non-missing value, analyze_column       *)
(* reports outliers whose lower_bound is q25 - 1.5 * (q75 - q25) and whose *)
(* upper_bound is q75 + 1.5 * (q75 - q25), q25 and q75 being the 0.25 and  *)
(* 0.75 quantiles of the non-missing values, and every value listed in     *)
(* outlier_values is strictly below lower_bound or strictly above          *)
(* upper_bound.                                                            *)
C1_OutlierBounds ==
  NumericColumnAnalysed =>
    /\ "outliers" \in DOMAIN result
    /\ REq(result.q25, Quartile(1))
    /\ REq(result.q75, Quartile(3))
    /\ REq(result.outliers.lower_bound,
           RSub(result.q25, RMul(Rat(3, 2), RSub(result.q75, result.q25))))
    /\ REq(result.outliers.upper_bound,
           RAdd(result.q75, RMul(Rat(3, 2), RSub(result.q75, result.q25))))
    /\ \A n \in DOMAIN result.outliers.outlier_values :
         \/ RLt(RInt(result.outliers.outlier_values[n]), result.outliers.lower_bound)
         \/ RLt(result.outliers.upper_bound, RInt(result.outliers.outlier_values[n]))

(* A column with an outlier below the lower bound is analysed. *)
C1_Witness ==
  /\ NumericColumnAnalysed
  /\ \E n \in DOMAIN result.outliers.outlier_values :
       RLt(RInt(result.outliers.outlier_values[n]), result.outliers.lower_bound)

(* A column with a value equal to each bound is analysed: neither is       *)
(* listed.                                                                 *)
C1_WitnessBound ==
  /\ NumericColumnAnalysed
  /\ \E i \in Present : REq(RInt(ValueAt(i)), result.outliers.lower_bound)
  /\ \E i \in Present : REq(RInt(ValueAt(i)), result.outliers.upper_bound)
  /\ result.outliers.outlier_values = <<>>

(* C2: outliers.count is the number of non-missing values outside          *)
(* [lower_bound, upper_bound]; a value equal to a bound is not counted;    *)
(* age = 20, 21, 22, 23, 1000 gives count 1, the value 1000.               *)
C2_OutlierCount ==
  /\ NumericColumnAnalysed =>
       result.outliers.count =
         Cardinality({i \in Present : \/ RLt(RInt(ValueAt(i)), LowerFence)
                                      \/ RLt(UpperFence, RInt(ValueAt(i)))})
  /\ (NumericColumnAnalysed /\ df = AgeExample) =>
       /\ result.outliers.count = 1
       /\ result.outliers.outlier_values = <<1000>>

(* The age column has been analysed. *)
C2_Witness ==
  /\ NumericColumnAnalysed
  /\ df = AgeExample
  /\ result.outliers.count = 1

(* A value equal to the upper bound is left out of the count. *)
C2_WitnessBound ==
  /\ NumericColumnAnalysed
  /\ result.outliers.count = 0
  /\ \E i \in Present : REq(RInt(ValueAt(i)), UpperFence)
  /\ \E i \in Present : RLt(RInt(ValueAt(i)), UpperFence)

(* C3: on a dataset with at least one cell, data_quality_score is in       *)
(* [0, 100], and is 100 exactly when no cell is missing.                   *)
C3_QualityScoreRange ==
  (Called("scan_overview") /\ Cells >= 1) =>
    /\ "data_quality_score" \in DOMAIN result
    /\ RLe(RInt(0), result.data_quality_score)
    /\ RLe(result.data_quality_score, RInt(100))
    /\ REq(result.data_quality_score, RInt(100)) <=> MissingCells = 0

(* A dataset with some, but not only, missing cells has been scanned. *)
C3_Witness ==
  /\ Called("scan_overview")
  /\ MissingCells > 0
  /\ RLt(RInt(0), result.data_quality_score)
  /\ RLt(result.data_quality_score, RInt(100))

(* C4, as stated: on a dataset with zero cells scan_overview returns an    *)
(* overview whose data_quality_score is 0.                                 *)
C4_ZeroCellsScoreZero ==
  (Called("scan_overview") /\ Cells = 0) =>
    /\ "data_quality_score" \in DOMAIN result
    /\ REq(result.data_quality_score, RInt(0))

(* C4, amended: on a dataset with zero cells scan_overview returns the     *)
(* error result, without a data_quality_score; on every other dataset the  *)
(* score is (total cells - null cells) / total cells * 100.                *)
C4_ZeroCellsError ==
  Called("scan_overview") =>
    IF Cells = 0
      THEN DOMAIN result = {"error"}
      ELSE /\ "error" \notin DOMAIN result
           /\ REq(result.data_quality_score, Rat((Cells - MissingCells) * 100, Cells))

(* A dataset with rows and no column has been scanned. *)
C4_Witness ==
  /\ Called("scan_overview")
  /\ Cells = 0
  /\ df.nrows > 0
  /\ "error" \in DOMAIN result

(* C5: with fewer than 2 numeric columns find_correlations, whatever the   *)
(* threshold, returns an error result: an error message and no             *)
(* correlation_matrix, strong_correlations or avg_correlation.             *)
C5_TooFewNumericColumns ==
  (Called("find_correlations") /\ Cardinality(NumericIndexes) < 2) =>
    DOMAIN result = {"error"}

(* A dataset with one numeric column and one text column has been asked. *)
C5_Witness ==
  /\ Called("find_correlations")
  /\ Cardinality(NumericIndexes) = 1
  /\ Len(df.columns) = 2
  /\ df.nrows > 0
  /\ "error" \in DOMAIN result

PairIndex(n) ==
  CHOOSE p \in NumericIndexes \X NumericIndexes : ReportsPair(n, p[1], p[2])

C7_WitnessUndefined ==
  /\ Correlated
  /\ arg.threshold = Rat(0, 1)
  /\ \E i, j \in NumericIndexes : i < j /\ ~PearsonDefined(i, j)
  /\ Len(result.strong_correlations) = 1

(* A pair with a coefficient under the default threshold is left out. *)
C7_WitnessBelow ==
  /\ Correlated
  /\ arg.threshold = DefaultThreshold
  /\ \E i, j \in NumericIndexes : i < j /\ PearsonDefined(i, j)
  /\ result.strong_correlations = <<>>

(* C8: the strength of an entry depends on |r| alone, by bands closed      *)
(* below: Very Strong from 0.8, Strong from 0.6, Moderate from 0.4, Weak   *)
(* from 0.2, Very Weak under it.                                           *)
SquareAtLeast(r, p, q) == r.num2 * q * q >= p * p * r.den2

Band(r) ==
  IF SquareAtLeast(r, 4, 5) THEN "Very Strong"
  ELSE IF SquareAtLeast(r, 3, 5) THEN "Strong"
  ELSE IF SquareAtLeast(r, 2, 5) THEN "Moderate"
  ELSE IF SquareAtLeast(r, 1, 5) THEN "Weak"
  ELSE "Very Weak"

C8_StrengthBands ==
  Correlated =>
    \A n \in Reported :
      /\ ~result.strong_correlations[n].correlation.nan
      /\ result.strong_correlations[n].strength = Band(result.strong_correlations[n].correlation)

(* A coefficient of exactly -0.8 is reported, as Very Strong. *)
C8_Witness ==
  /\ Correlated
  /\ \E n \in Reported :
       LET e == result.strong_correlations[n]
       IN e.correlation.sgn = -1 /\ 25 * e.correlation.num2 = 16 * e.correlation.den2
          /\ e.strength = "Very Strong"

(* A coefficient of exactly 0.2 is reported, as Weak, and one under it as  *)
(* Very Weak.                                                              *)
C8_WitnessWeak ==
  /\ Correlated
  /\ \E n \in Reported :
       LET e == result.strong_correlations[n]
       IN 25 * e.correlation.num2 = e.correlation.den2 /\ e.strength = "Weak"

(* C9: two identical numeric columns that are not constant are reported by *)
(* find_correlations() as a pair with correlation 1.0 and strength Very    *)
(* Strong.                                                                 *)
IdenticalColumns(i, j) ==
  /\ df.columns[i].values = df.columns[j].values
  /\ \E r, q \in 1..df.nrows :
       /\ df.columns[i].values[r] # NULL
       /\ df.columns[i].values[q] # NULL
       /\ df.columns[i].values[r] # df.columns[i].values[q]

C9_IdenticalColumns ==
  (Called("find_correlations") /\ arg.threshold = DefaultThreshold) =>
    \A i, j \in NumericIndexes :
      (i < j /\ IdenticalColumns(i, j)) =>
        /\ "strong_correlations" \in DOMAIN result
        /\ \E n \in Reported :
             /\ ReportsPair(n, i, j)
             /\ ~result.strong_correlations[n].correlation.nan
             /\ result.strong_correlations[n].correlation.sgn = 1
             /\ result.strong_correlations[n].correlation.num2
                  = result.strong_correlations[n].correlation.den2
             /\ result.strong_correlations[n].strength = "Very Strong"

(* a = b = 1, 2, 3, 4, 5 has been asked with the default threshold. *)
C9_Witness ==
  /\ Called("find_correlations")
  /\ arg.threshold = DefaultThreshold
  /\ df = IdenticalExample
  /\ Len(result.strong_correlations) = 1

(* C10: potential_id_columns lists a column exactly when none of its       *)
(* values is missing and its values are pairwise distinct; five distinct   *)
(* names are listed.                                                       *)
AllDistinctNonNull(i) ==
  /\ \A r \in 1..df.nrows : df.columns[i].values[r] # NULL
  /\ \A r, q \in 1..df.nrows : r # q => df.columns[i].values[r] # df.columns[i].values[q]

Listed(i) ==
  \E n \in DOMAIN result.duplicate_patterns.potential_id_columns :
    result.duplicate_patterns.potential_id_columns[n] = df.columns[i].name

C10_PotentialIdColumns ==
  Called("detect_patterns") =>
    /\ \A i \in DOMAIN df.columns : Listed(i) <=> AllDistinctNonNull(i)
    /\ df = NameExample => result.duplicate_patterns.potential_id_columns = <<"name">>

(* The five distinct names have been scanned for patterns. *)
C10_Witness ==
  /\ Called("detect_patterns")
  /\ df = NameExample
  /\ Listed(1)

(* Distinct values and a missing one: the column is not listed. *)
C10_WitnessNull ==
  /\ Called("detect_patterns")
  /\ Len(df.columns) = 1
  /\ df.nrows = 3
  /\ Cardinality({df.columns[1].values[r] : r \in 1..df.nrows}) = 3
  /\ \E r \in 1..df.nrows : df.columns[1].values[r] = NULL
  /\ ~Listed(1)

----------------------------------------------------------------------------
(* Vocabulary of the insight rules, stated from the dataset alone. *)

PresentIn(i) == {r \in 1..df.nrows : df.columns[i].values[r] # NULL}

ValuesIn(i) == {df.columns[i].values[r] : r \in PresentIn(i)}

(* The k-th smallest non-missing value of column i, by rank. *)
KthSmallestIn(i, k) ==
  CHOOSE v \in ValuesIn(i) :
    /\ Cardinality({r \in PresentIn(i) : df.columns[i].values[r] < v}) < k
    /\ Cardinality({r \in PresentIn(i) : df.columns[i].values[r] <= v}) >= k

QuartileIn(i, w) ==
  LET h == w * (Cardinality(PresentIn(i)) - 1)
      lo == h \div 4
      fr == h % 4
  IN IF fr = 0 THEN RInt(KthSmallestIn(i, lo + 1))
     ELSE Rat((4 - fr) * KthSmallestIn(i, lo + 1) + fr * KthSmallestIn(i, lo + 2), 4)

OutliersIn(i) ==
  LET iqr == RSub(QuartileIn(i, 3), QuartileIn(i, 1))
      low == RSub(QuartileIn(i, 1), RMul(Rat(3, 2), iqr))
      high == RAdd(QuartileIn(i, 3), RMul(Rat(3, 2), iqr))
  IN {r \in PresentIn(i) : \/ RLt(RInt(df.columns[i].values[r]), low)
                           \/ RLt(high, RInt(df.columns[i].values[r]))}

(* The rows equal, cell by cell, to an earlier row. *)
RepeatedRows ==
  {r \in 1..df.nrows :
     \E q \in 1..(r - 1) : \A i \in DOMAIN df.columns :
        df.columns[i].values[q] = df.columns[i].values[r]}

QualityBelow80 == 100 * (Cells - MissingCells) < 80 * Cells

MissingAbove50(i) == 100 * (df.nrows - Cardinality(PresentIn(i))) > 50 * df.nrows

LikelyIdentifier(i) == 100 * Cardinality(ValuesIn(i)) > 95 * df.nrows /\ df.nrows > 10

OutliersAbove10(i) ==
  /\ df.columns[i].dtype = Float64
  /\ PresentIn(i) # {}
  /\ 100 * Cardinality(OutliersIn(i)) > 10 * Cardinality(PresentIn(i))

Rule(name, column) == [rule |-> name, column |-> column]

(* The rules of columns i, i + 1, ... in column order. *)
RECURSIVE ColumnRules(_)
ColumnRules(i) ==
  IF i > Len(df.columns) THEN <<>>
  ELSE (IF MissingAbove50(i) THEN <<Rule("missing", df.columns[i].name)>> ELSE <<>>)
       \o (IF LikelyIdentifier(i) THEN <<Rule("identifier", df.columns[i].name)>> ELSE <<>>)
       \o (IF OutliersAbove10(i) THEN <<Rule("outliers", df.columns[i].name)>> ELSE <<>>)
       \o ColumnRules(i + 1)

(* Every rule but the correlation notes, in the documented order. *)
FiredRules ==
  (IF QualityBelow80 THEN <<Rule("quality", "")>> ELSE <<>>)
  \o (IF RepeatedRows # {} THEN <<Rule("duplicates", "")>> ELSE <<>>)
  \o ColumnRules(1)

(* The pairs of numeric columns with |r| >= 0.5. *)
StrongPairs ==
  {p \in NumericIndexes \X NumericIndexes : p[1] < p[2] /\ PearsonAtLeast(p[1], p[2], Rat(1, 2))}

Min(a, b) == IF a < b THEN a ELSE b

Generated == Called("generate_insights") /\ Cells > 0

(* Entry n of the result is the note of a pair of strongly correlated columns. *)
IsCorrelationNote(n) ==
  /\ result[n].rule = "correlation"
  /\ \E p \in StrongPairs : /\ result[n].column1 = df.columns[p[1]].name
                            /\ result[n].column2 = df.columns[p[2]].name

----------------------------------------------------------------------------
(* C11: generate_insights on an empty dataset returns the one-element list *)
(* of the no-data message; on every non-empty dataset it returns a list of *)
(* at most 10 insights, possibly none, however many rules fire.            *)
C11_InsightsBounded ==
  Called("generate_insights") =>
    IF Cells = 0
      THEN result = <<[rule |-> "no_data", text |-> "No data available for analysis"]>>
      ELSE /\ Len(result) <= 10
           /\ \A n \in DOMAIN result :
                result[n].rule \in {"quality", "duplicates", "missing", "identifier",
                                    "outliers", "correlation"}

(* More than ten rules fire and ten insights are returned. *)
C11_Witness ==
  /\ Generated
  /\ Len(FiredRules) + Cardinality(StrongPairs) > 10
  /\ Len(result) = 10

(* A dataset of rows without columns gets the no-data message. *)
C11_WitnessEmpty ==
  /\ Called("generate_insights")
  /\ df.nrows > 0
  /\ Cells = 0
  /\ Len(result) = 1

(* A dataset on which no rule fires gets the empty list. *)
C11_WitnessNone == Generated /\ result = <<>>

(* C12: on a non-empty dataset generate_insights returns the first 10      *)
(* entries of the list built in this order, every applicable rule firing:  *)
(* the quality warning iff the score is below 80; the dedup suggestion iff *)
(* there are duplicate rows; for each column in column order the missing   *)
(* warning iff over 50% is missing, the identifier note iff over 95% is    *)
(* unique on more than 10 rows, the outlier warning iff over 10% are       *)
(* outliers; last the correlation notes.  Truncation drops a suffix.       *)
C12_RuleOrder ==
  Generated =>
    LET fixed == Min(Len(FiredRules), 10)
    IN /\ Len(result) = Min(10, Len(FiredRules) + Min(3, Cardinality(StrongPairs)))
       /\ \A n \in 1..fixed :
            /\ result[n].rule = FiredRules[n].rule
            /\ FiredRules[n].column # "" => result[n].column = FiredRules[n].column
       /\ \A n \in (fixed + 1)..Len(result) : IsCorrelationNote(n)
       /\ \A m, n \in (fixed + 1)..Len(result) :
            (result[m].column1 = result[n].column1 /\ result[m].column2 = result[n].column2)
              => m = n

(* Rules of every kind fire, more than ten in all, and the last            *)
(* correlation note is the one dropped.                                    *)
C12_Witness ==
  /\ Generated
  /\ Len(FiredRules) = 8
  /\ Cardinality(StrongPairs) = 3
  /\ Len(result) = 10
  /\ result[1].rule = "quality"
  /\ result[2].rule = "duplicates"
  /\ result[3].rule = "missing"
  /\ result[4].rule = "outliers"
  /\ result[10].rule = "correlation"

(* A column of eleven distinct values gets the identifier note. *)
C12_WitnessIdentifier ==
  /\ Generated
  /\ df.nrows = 11
  /\ result = <<[rule |-> "identifier", column |-> "id"]>>

(* A column of ten distinct values gets no note. *)
C12_WitnessTenRows ==
  /\ Generated
  /\ df.nrows = 10
  /\ Cardinality(ValuesIn(1)) = 10
  /\ result = <<>>

(* A column of twenty values, 95% of them unique, gets the dedup           *)
(* suggestion alone.                                                       *)
C12_WitnessAt95 ==
  /\ Generated
  /\ df.nrows = 20
  /\ Cardinality(ValuesIn(1)) = 19
  /\ Len(result) = 1
  /\ result[1].rule = "duplicates"

RECURSIVE Gcd(_, _)
Gcd(a, b) == IF b = 0 THEN a ELSE Gcd(b, a % b)

(* The square of Pearson's r of a pair with a defined coefficient, in      *)
(* lowest terms.                                                           *)
RSquared(p) ==
  LET n == CoMoment(p[1], p[2], p[1], p[2]) * CoMoment(p[1], p[2], p[1], p[2])
      d == CoMoment(p[1], p[2], p[1], p[1]) * CoMoment(p[1], p[2], p[2], p[2])
  IN Rat(n \div Gcd(n, d), d \div Gcd(n, d))

Noted(p) ==
  \E n \in DOMAIN result : /\ result[n].rule = "correlation"
                           /\ result[n].column1 = df.columns[p[1]].name
                           /\ result[n].column2 = df.columns[p[2]].name

(* C13: generate_insights emits relationship notes for at most 3 pairs,    *)
(* and when more than three pairs of numeric columns have |r| >= 0.5 the   *)
(* pairs that get a note are the three with the largest |r| (looked at     *)
(* where the limit of ten insights leaves room for three notes).           *)
C13_TopThree ==
  Generated =>
    /\ Cardinality({n \in DOMAIN result : result[n].rule = "correlation"}) <= 3
    /\ (Cardinality(StrongPairs) > 3 /\ Len(FiredRules) + 3 <= 10) =>
         \A p, q \in StrongPairs :
            (Noted(p) /\ ~Noted(q)) => ~RLt(RSquared(p), RSquared(q))

(* More than three strong pairs of equal |r|: three are noted. *)
C13_WitnessTies ==
  /\ Generated
  /\ Cardinality(StrongPairs) > 3
  /\ Len(FiredRules) + 3 <= 10
  /\ Cardinality({p \in StrongPairs : Noted(p)}) = 3
  /\ \A p, q \in StrongPairs : REq(RSquared(p), RSquared(q))

----------------------------------------------------------------------------
----------------------------------------------------------------------------
(* C16: analyze_column(name) with a name that is no column of the dataset  *)
(* returns an error result, a record holding an error message and none of  *)
(* the analysis fields, and leaves the dataset unchanged.                  *)
C16_UnknownColumn ==
  /\ []((Called("analyze_column") /\ arg.column \notin ColumnNames(df)) =>
          /\ "error" \in DOMAIN result
          /\ result.error = "Column '" \o arg.column \o "' not found"
          /\ DOMAIN result \cap {"column_name", "dtype", "count", "null_count",
                                 "null_percentage", "unique_count",
                                 "unique_percentage"} = {})
  /\ [][(op' = "analyze_column" /\ arg'.column \notin ColumnNames(df)) => df' = df]_vars

(* A name that is no column is analysed on a dataset with values. *)
C16_Witness ==
  /\ Called("analyze_column")
  /\ arg.column \notin ColumnNames(df)
  /\ df.nrows > 0
  /\ Len(df.columns) > 0
  /\ result = [error |-> "Column 'nosuch' not found"]

----------------------------------------------------------------------------
(* C17: every operation of the scanner (scan_overview, analyze_column,     *)
(* find_correlations, detect_patterns, generate_insights) invoked on an    *)
(* empty dataset signals it through its return value: a result holding an  *)
(* error field, the no-data message for generate_insights.                 *)
C17_EmptySignalled ==
  (Cells = 0 /\ op \in {"scan_overview", "analyze_column", "find_correlations",
                        "detect_patterns", "generate_insights"}) =>
    IF Called("generate_insights")
      THEN result = <<[rule |-> "no_data", text |-> "No data available for analysis"]>>
      ELSE "error" \in DOMAIN result

(* scan_overview on a dataset of two columns and no row returns its error. *)
C17_Witness ==
  /\ Called("scan_overview")
  /\ df.nrows = 0
  /\ Len(df.columns) = 2
  /\ "error" \in DOMAIN result

(* detect_patterns on the same dataset returns its three groups, the       *)
(* missing percentage undefined, and no error.                             *)
C17_WitnessPatterns ==
  /\ Called("detect_patterns")
  /\ df.nrows = 0
  /\ Len(df.columns) = 2
  /\ "error" \notin DOMAIN result
  /\ result.missing_data_patterns.missing_percentage = NaN

----------------------------------------------------------------------------
BaseFields ==
  {"column_name", "dtype", "count", "null_count", "null_percentage", "unique_count",
   "unique_percentage"}

NumericFields == {"min", "max", "mean", "median", "std", "q25", "q75", "outliers"}

ColumnAnalysed(dtype) ==
  /\ Called("analyze_column")
  /\ arg.column \in ColumnNames(df)
  /\ dtype_of(df, arg.column) = dtype

(* C18: for a numeric column analyze_column includes min, max, mean,       *)
(* median, std, q25, q75 and outliers if and only if a non-missing value   *)
(* remains; for a numeric column whose values are all missing they are all *)
(* omitted and the base fields alone are returned.                         *)
C18_NumericFieldsIffValues ==
  ColumnAnalysed(Float64) =>
    IF Present # {} THEN DOMAIN result = BaseFields \cup NumericFields
    ELSE DOMAIN result = BaseFields

(* A numeric column of missing values alone is analysed. *)
C18_Witness ==
  /\ ColumnAnalysed(Float64)
  /\ df.nrows > 1
  /\ Present = {}
  /\ result.count = df.nrows
  /\ result.null_count = df.nrows

(* A numeric column with one value among missing ones is analysed. *)
C18_WitnessOneValue ==
  /\ ColumnAnalysed(Float64)
  /\ df.nrows > 1
  /\ Cardinality(Present) = 1
  /\ "outliers" \in DOMAIN result
  /\ result.min = result.max

----------------------------------------------------------------------------
DateFields ==
  {"min_date", "max_date", "date_range_days", "most_common_year", "most_common_month"}

(* v is the most frequent of f over the non-missing values of the analysed *)
(* column, the smallest one if several are.                                *)
MostCommon(v, f(_)) ==
  LET times(w) == Cardinality({i \in Present : f(ValueAt(i)) = w})
  IN /\ times(v) > 0
     /\ \A i \in Present : times(f(ValueAt(i))) <= times(v)
     /\ \A i \in Present : times(f(ValueAt(i))) = times(v) => v <= f(ValueAt(i))

(* C19 as documented: for a datetime column whose coerced series is empty  *)
(* analyze_column reports most_common_year = None and most_common_month =  *)
(* None.                                                                   *)
C19_NoneWhenEmpty ==
  (ColumnAnalysed(Datetime64) /\ Present = {}) =>
    /\ "most_common_year" \in DOMAIN result
    /\ "most_common_month" \in DOMAIN result
    /\ result.most_common_year = None
    /\ result.most_common_month = None

(* C19 amended: for a datetime column whose coerced series is empty        *)
(* analyze_column omits most_common_year and most_common_month with the    *)
(* other date fields and returns the base fields alone; otherwise both are *)
(* reported and are the most frequent year and month, never None.          *)
C19_OmittedWhenEmpty ==
  ColumnAnalysed(Datetime64) =>
    IF Present = {} THEN DOMAIN result = BaseFields
    ELSE /\ DOMAIN result = BaseFields \cup DateFields
         /\ MostCommon(result.most_common_year, year)
         /\ MostCommon(result.most_common_month, month)

(* A datetime column of missing values alone is analysed. *)
C19_Witness ==
  /\ ColumnAnalysed(Datetime64)
  /\ df.nrows > 1
  /\ Present = {}
  /\ "most_common_year" \notin DOMAIN result

(* A datetime column with one date among missing values is analysed. *)
C19_WitnessOneDate ==
  /\ ColumnAnalysed(Datetime64)
  /\ df.nrows > 1
  /\ Cardinality(Present) = 1
  /\ result.most_common_year = 2024

----------------------------------------------------------------------------
(* C20: for every numeric column outliers.outlier_values holds at most 20  *)
(* entries: its length is min(count, 20) and it is the first entries, in   *)
(* row order, of the values outside the bounds; outliers.count and         *)
(* outliers.percentage are not capped.                                     *)
C20_OutlierValuesCapped ==
  NumericColumnAnalysed =>
    LET low == LowerFence
        high == UpperFence
        outside == {i \in Present : RLt(RInt(ValueAt(i)), low) \/ RLt(high, RInt(ValueAt(i)))}
        nth(n) == CHOOSE i \in outside : Cardinality({j \in outside : j < i}) = n - 1
    IN /\ Len(result.outliers.outlier_values) = Min(result.outliers.count, 20)
       /\ \A n \in DOMAIN result.outliers.outlier_values :
            result.outliers.outlier_values[n] = ValueAt(nth(n))
       /\ result.outliers.count = Cardinality(outside)
       /\ REq(result.outliers.percentage,
              Rat(100 * Cardinality(outside), Cardinality(Present)))

(* A column with 22 outliers, the largest first, is analysed: 22 are       *)
(* counted and the first 20 listed.                                        *)
C20_Witness ==
  /\ NumericColumnAnalysed
  /\ result.outliers.count = 22
  /\ Len(result.outliers.outlier_values) = 20
  /\ result.outliers.outlier_values[1] > result.outliers.outlier_values[20]

(* Columns with 19 and with 20 outliers: all are listed. *)
C20_WitnessUnder ==
  /\ NumericColumnAnalysed
  /\ result.outliers.count = 19
  /\ Len(result.outliers.outlier_values) = 19

C20_WitnessAtCap ==
  /\ NumericColumnAnalysed
  /\ result.outliers.count = 20
  /\ Len(result.outliers.outlier_values) = 20

----------------------------------------------------------------------------
(* The missing values of column i. *)
MissingIn(i) == Cardinality({r \in 1..df.nrows : df.columns[i].values[r] = NULL})

(* C21: columns_with_missing of detect_patterns holds exactly the columns  *)
(* with at least one missing value, each with its missing count, ranked by *)
(* missing count in descending order.                                      *)
C21_ColumnsWithMissing ==
  Called("detect_patterns") =>
    LET listed == result.missing_data_patterns.columns_with_missing
    IN /\ \A i \in DOMAIN df.columns :
            MissingIn(i) > 0 <=>
              \E n \in DOMAIN listed : /\ listed[n].column = df.columns[i].name
                                       /\ listed[n].missing = MissingIn(i)
       /\ \A n \in DOMAIN listed :
            \E i \in DOMAIN df.columns : /\ listed[n].column = df.columns[i].name
                                         /\ MissingIn(i) > 0
       /\ \A m, n \in DOMAIN listed :
            /\ m < n => listed[m].missing >= listed[n].missing
            /\ listed[m].column = listed[n].column => m = n

(* The second column misses more values than the first and is ranked       *)
(* before it.                                                              *)
C21_Witness ==
  /\ Called("detect_patterns")
  /\ Len(df.columns) = 2
  /\ 0 < MissingIn(1)
  /\ MissingIn(1) < MissingIn(2)
  /\ Len(result.missing_data_patterns.columns_with_missing) = 2
  /\ result.missing_data_patterns.columns_with_missing[1].column = df.columns[2].name

(* A column without a missing value beside one with some is left out. *)
C21_WitnessComplete ==
  /\ Called("detect_patterns")
  /\ Len(df.columns) = 2
  /\ df.nrows > 0
  /\ MissingIn(1) = 0
  /\ MissingIn(2) > 0
  /\ Len(result.missing_data_patterns.columns_with_missing) = 1

----------------------------------------------------------------------------
(* The overview and the patterns of one dataset, as the insights tab holds *)
(* them.                                                                   *)
TabRendered == op = "_render_insights_tab"

ScoreShown == result.overview.data_quality_score

MissingShown == result.patterns.missing_data_patterns.missing_percentage

Hundred == double(100)

(* y is the double just below or just above x, x not a power of two. *)
NextTo(x, y) ==
  /\ y.e = x.e
  /\ \/ BigAdd(y.m, Big(1), 0) = x.m
     \/ BigAdd(x.m, Big(1), 0) = y.m

(* C30 as stated: the score and the missing percentage, as the doubles the *)
(* scanner returns, add up to the double 100, and total_missing_cells is   *)
(* the sum of null_counts.                                                 *)
C30_SumIsHundred ==
  TabRendered =>
    /\ add(ScoreShown.double, MissingShown.double) = Hundred
    /\ result.patterns.missing_data_patterns.total_missing_cells
         = SumSeq(result.overview.null_counts)

(* C30, amended: the exact values of the score and of the missing          *)
(* percentage add up to 100, the doubles returned add up to 100 or to one  *)
(* of the two doubles next to it, and total_missing_cells is the sum of    *)
(* null_counts.                                                            *)
C30_Complementary ==
  TabRendered =>
    /\ REq(RAdd(ScoreShown, MissingShown), RInt(100))
    /\ \/ add(ScoreShown.double, MissingShown.double) = Hundred
       \/ NextTo(Hundred, add(ScoreShown.double, MissingShown.double))
    /\ result.patterns.missing_data_patterns.total_missing_cells
         = SumSeq(result.overview.null_counts)

(* One cell of three is missing: the doubles add up to the double below    *)
(* 100.                                                                    *)
C30_Witness ==
  /\ TabRendered
  /\ df.nrows * Len(df.columns) = 3
  /\ result.patterns.missing_data_patterns.total_missing_cells = 1
  /\ NextTo(Hundred, add(ScoreShown.double, MissingShown.double))
  /\ BigAdd(add(ScoreShown.double, MissingShown.double).m, Big(1), 0) = Hundred.m

(* One cell of four is missing: the doubles add up to 100. *)
C30_WitnessExact ==
  /\ TabRendered
  /\ df.nrows * Len(df.columns) = 4
  /\ result.patterns.missing_data_patterns.total_missing_cells = 1
  /\ add(ScoreShown.double, MissingShown.double) = Hundred

----------------------------------------------------------------------------
(* The chart operations, by engine. *)
IsChart(r, kind) == "chart" \in DOMAIN r /\ r.chart = kind

Compared == op = "data_scanner.create_comparison_charts"

EngineCompared == op = "visualization_engine.create_comparison_chart"

Exists(column) == column \in ColumnNames(viz_df)

TypeOf(column) == dtype_of(viz_df, column)

(* C22: on two existing columns create_comparison_charts gives a scatter   *)
(* with a trend line for two numeric columns, a box plot of the numeric    *)
(* column grouped by the text column for one of each in either argument    *)
(* order, and a cross-tabulation heatmap for two text columns.             *)
C22_ChartByTypes ==
  (Compared /\ Exists(arg.x_col) /\ Exists(arg.y_col) /\ arg.x_col # arg.y_col) =>
    LET tx == TypeOf(arg.x_col)
        ty == TypeOf(arg.y_col)
    IN /\ (tx = Float64 /\ ty = Float64) =>
            IsChart(result, "scatter") /\ result.trendline = "ols"
       /\ (tx = Object /\ ty = Float64) =>
            /\ IsChart(result, "box")
            /\ result.x = series(viz_df, arg.x_col)
            /\ result.y = series(viz_df, arg.y_col)
       /\ (tx = Float64 /\ ty = Object) =>
            /\ IsChart(result, "box")
            /\ result.x = series(viz_df, arg.y_col)
            /\ result.y = series(viz_df, arg.x_col)
       /\ (tx = Object /\ ty = Object) =>
            /\ IsChart(result, "imshow")
            /\ result.z = crosstab(series(viz_df, arg.x_col), series(viz_df, arg.y_col))

(* A numeric column against a text column, with values in both: no chart. *)
C22_Witness ==
  /\ Compared
  /\ Exists(arg.x_col) /\ Exists(arg.y_col)
  /\ TypeOf(arg.x_col) = Float64
  /\ TypeOf(arg.y_col) = Object
  /\ paired_rows(series(viz_df, arg.x_col), series(viz_df, arg.y_col)) # <<>>
  /\ result = None

(* The same two columns the other way round: a box plot. *)
C22_WitnessBox ==
  /\ Compared
  /\ Exists(arg.x_col) /\ Exists(arg.y_col)
  /\ TypeOf(arg.x_col) = Object
  /\ TypeOf(arg.y_col) = Float64
  /\ paired_rows(series(viz_df, arg.x_col), series(viz_df, arg.y_col)) # <<>>
  /\ IsChart(result, "box")

(* The two columns of a comparison hold no row with a value in both. *)
NoPairedRow(c1, c2) == paired_rows(series(viz_df, c1), series(viz_df, c2)) = <<>>

(* C23: a comparison chart operation of either engine returns None when a  *)
(* named column is absent or no row holds a value in both columns.         *)
C23_NoneWithoutPairs ==
  /\ Compared =>
       ((~Exists(arg.x_col) \/ ~Exists(arg.y_col) \/ NoPairedRow(arg.x_col, arg.y_col))
          => result = None)
  /\ EngineCompared =>
       ((~Exists(arg.column1) \/ ~Exists(arg.column2) \/ NoPairedRow(arg.column1, arg.column2))
          => result = None)

(* Two numeric columns of a dataset with rows, none with a value in both:  *)
(* create_comparison_charts returns a scatter chart.                       *)
C23_Witness ==
  /\ Compared
  /\ Exists(arg.x_col) /\ Exists(arg.y_col)
  /\ viz_df.nrows > 0
  /\ NoPairedRow(arg.x_col, arg.y_col)
  /\ IsChart(result, "scatter")

(* The same case on the other engine: None. *)
C23_WitnessEngine ==
  /\ EngineCompared
  /\ Exists(arg.column1) /\ Exists(arg.column2)
  /\ viz_df.nrows > 0
  /\ NoPairedRow(arg.column1, arg.column2)
  /\ result = None

ColumnCharted == op = "data_scanner.create_column_analysis_chart"

EngineColumnCharted == op = "visualization_engine.create_column_chart"

NoValue(column) == dropna(series(viz_df, column)) = <<>>

(* C24: a single-column chart operation of either engine returns None when *)
(* the column does not exist or holds no non-missing value.                *)
C24_NoneWithoutValues ==
  /\ ColumnCharted =>
       ((~Exists(arg.column) \/ NoValue(arg.column)) => result = None)
  /\ EngineColumnCharted =>
       ((~Exists(arg.column_name) \/ NoValue(arg.column_name)) => result = None)

(* A numeric column of a dataset with rows, every value missing:           *)
(* create_column_analysis_chart returns a box plot.                        *)
C24_Witness ==
  /\ ColumnCharted
  /\ Exists(arg.column)
  /\ viz_df.nrows > 0
  /\ TypeOf(arg.column) = Float64
  /\ NoValue(arg.column)
  /\ IsChart(result, "box")

(* A datetime column without a value: None, from either engine. *)
C24_WitnessDatetime ==
  /\ ColumnCharted
  /\ Exists(arg.column)
  /\ viz_df.nrows > 0
  /\ TypeOf(arg.column) = Datetime64
  /\ NoValue(arg.column)
  /\ result = None

C24_WitnessEngine ==
  /\ EngineColumnCharted
  /\ Exists(arg.column_name)
  /\ viz_df.nrows > 0
  /\ TypeOf(arg.column_name) = Float64
  /\ NoValue(arg.column_name)
  /\ result = None

----------------------------------------------------------------------------
Overviewed == op = "data_scanner.create_overview_charts"

EngineOverviewed == op = "visualization_engine.create_overview_charts"

(* The positions of the numeric columns, and those with fewer than four    *)
(* numeric columns before them.                                            *)
NumericAt == {i \in DOMAIN viz_df.columns : viz_df.columns[i].dtype = Float64}

FirstFour == {i \in NumericAt : Cardinality({j \in NumericAt : j < i}) < 4}

(* The histograms of an overview, by column name. *)
Histograms ==
  IF "numeric_distributions" \in DOMAIN result THEN result.numeric_distributions ELSE <<>>

MissingChartIffMissing ==
  "missing_data" \in DOMAIN result <=>
    \E i \in DOMAIN viz_df.columns, r \in 1..viz_df.nrows : viz_df.columns[i].values[r] = NULL

OneHistogramEach ==
  /\ DOMAIN Histograms = {viz_df.columns[i].name : i \in FirstFour}
  /\ \A i \in FirstFour :
       /\ IsChart(Histograms[viz_df.columns[i].name], "histogram")
       /\ Histograms[viz_df.columns[i].name].x = viz_df.columns[i].name

(* C25 as stated: create_overview_charts of either engine, on a dataset    *)
(* that is not empty, returns the missing-data chart exactly when a column *)
(* has a missing value, and one histogram for each of the first four       *)
(* numeric columns and for no other column.                                *)
C25_OverviewCharts ==
  ((Overviewed \/ EngineOverviewed) /\ ~empty(viz_df)) =>
    MissingChartIffMissing /\ OneHistogramEach

(* C25, amended: on a dataset that is not empty both engines return the    *)
(* missing-data chart exactly when a column has a missing value; the       *)
(* engine of utils/data_scanner.py returns one histogram for each of the   *)
(* first four numeric columns and for no other column, the engine of       *)
(* utils/visualization_engine.py returns no histogram but the data-types   *)
(* and the metrics chart.                                                  *)
C25_OverviewByEngine ==
  /\ (Overviewed /\ ~empty(viz_df)) =>
       MissingChartIffMissing /\ OneHistogramEach
  /\ (EngineOverviewed /\ ~empty(viz_df)) =>
       /\ MissingChartIffMissing
       /\ DOMAIN result \ {"missing_data"} = {"data_types", "metrics"}
       /\ \A k \in DOMAIN result : ~IsChart(result[k], "histogram")

(* Five numeric columns, one value missing: the missing-data chart and the *)
(* histograms of the first four columns.                                   *)
C25_Witness ==
  /\ Overviewed
  /\ Cardinality(NumericAt) = 5
  /\ "missing_data" \in DOMAIN result
  /\ Cardinality(DOMAIN Histograms) = 4
  /\ viz_df.columns[5].name \notin DOMAIN Histograms

(* A text column among the first four: the fifth column is the fourth      *)
(* numeric one and has its histogram.                                      *)
C25_WitnessOrder ==
  /\ Overviewed
  /\ Len(viz_df.columns) = 5
  /\ Cardinality(NumericAt) = 4
  /\ 5 \in NumericAt
  /\ viz_df.columns[5].name \in DOMAIN Histograms
  /\ "missing_data" \notin DOMAIN result

(* The other engine on numeric columns: no histogram. *)
C25_WitnessEngine ==
  /\ EngineOverviewed
  /\ ~empty(viz_df)
  /\ NumericAt # {}
  /\ Histograms = <<>>
  /\ "metrics" \in DOMAIN result

----------------------------------------------------------------------------
(* Reads of sheet data, by either module: the value returned and whether   *)
(* it came from the cache.                                                 *)
ManagerRead(o) == o = "GoogleSheetsManager.get_sheet_data"

GsheetRead(o) == o = "gsheet.get_sheet_data"

ReturnedBy(o, r) == r.returned

FromCache(o, r) ==
  IF ManagerRead(o) THEN r.path = "cache" ELSE r.message = "Success (cached)"

(* The worksheet a read or a write is for, whichever way it is named. *)
SheetOf(a) == extract_sheet_id(a.sheet_id)

WorksheetOf(a) == IF a.worksheet_name = NoName THEN sheets[SheetOf(a)].titles[1]
                  ELSE a.worksheet_name

(* C26: once a write to a worksheet has succeeded, a cached read of that   *)
(* worksheet, named by its title or as the default worksheet, returns no   *)
(* data fetched before that write: the data returned is of the count of    *)
(* successful writes the worksheet has.                                    *)
C26_NoReadFromBeforeWrite ==
  ((ManagerRead(op) \/ GsheetRead(op)) /\ arg.use_cache /\ FromCache(op, result)) =>
    ReturnedBy(op, result).writes = sheets[SheetOf(arg)].content[WorksheetOf(arg)].writes

(* A row is appended to Sheet1 by its title; the read of the default       *)
(* worksheet that follows returns the records cached before it.            *)
C26_Witness ==
  /\ ManagerRead(op)
  /\ arg.use_cache
  /\ arg.worksheet_name = NoName
  /\ result.path = "cache"
  /\ result.returned.writes = 0
  /\ sheets[SheetOf(arg)].content[Sheet1].writes = 1
  /\ cache_key(SheetOf(arg), Sheet1) \notin DOMAIN session_state.sheets_cache

(* Written and read under one name: the read after the write is not served *)
(* from the cache.                                                         *)
C26_WitnessSameName ==
  /\ ManagerRead(op)
  /\ arg.use_cache
  /\ arg.worksheet_name = Sheet1
  /\ result.path = "provider"
  /\ "writes" \in DOMAIN result.returned
  /\ result.returned.writes = 1

----------------------------------------------------------------------------
(* The cache before and after a step. *)
CacheOf(ss) == Get(ss, "sheets_cache", EmptyDict)

(* What a read step does to the entry of its key. *)
ReadWithinWindow ==
  LET key == cache_key(SheetOf(arg'), arg'.worksheet_name)
      before == CacheOf(session_state)
      after == CacheOf(session_state')
      returned == ReturnedBy(op', result')
  IN /\ FromCache(op', result') =>
          /\ arg'.use_cache
          /\ key \in DOMAIN before
          /\ clock - before[key].timestamp < 300
          /\ returned = before[key].data
          /\ after = before
     /\ ~FromCache(op', result') =>
          \/ returned = None /\ after = before
          \/ returned = EmptyFrame /\ after = before
          \/ /\ returned = sheets[SheetOf(arg')].content[WorksheetOf(arg')]
             /\ returned.records > 0
             /\ after = Set(before, key, [data |-> returned, timestamp |-> clock])

(* C27: a read returns a cached entry only when use_cache is set and the   *)
(* entry was stored less than 300 seconds before; otherwise the value      *)
(* comes from the provider: records that replace the entry under the time  *)
(* of the call, or an empty frame, or None after a failure, with the entry *)
(* left as it was and not returned.                                        *)
C27_CacheWindow == [][(GetSheetData \/ GsheetGetSheetData) => ReadWithinWindow]_vars

(* An entry of 300 seconds is there, the provider fails, None is returned. *)
C27_Witness ==
  /\ ManagerRead(op)
  /\ arg.use_cache
  /\ cache_key(SheetOf(arg), arg.worksheet_name) \in DOMAIN session_state.sheets_cache
  /\ clock - session_state.sheets_cache[cache_key(SheetOf(arg), arg.worksheet_name)].timestamp
       = 300
  /\ result.returned = None
  /\ result.path = "APIError"

(* An entry of 150 seconds is returned. *)
C27_WitnessFresh ==
  /\ GsheetRead(op)
  /\ arg.use_cache
  /\ cache_key(SheetOf(arg), arg.worksheet_name) \in DOMAIN session_state.sheets_cache
  /\ clock - session_state.sheets_cache[cache_key(SheetOf(arg), arg.worksheet_name)].timestamp
       = 150
  /\ result.message = "Success (cached)"

(* use_cache is not set and an entry of 150 seconds is there: the provider *)
(* is asked, and its failure returned.                                     *)
C27_WitnessNoCache ==
  /\ ManagerRead(op)
  /\ ~arg.use_cache
  /\ cache_key(SheetOf(arg), arg.worksheet_name) \in DOMAIN session_state.sheets_cache
  /\ clock - session_state.sheets_cache[cache_key(SheetOf(arg), arg.worksheet_name)].timestamp
       = 150
  /\ result.returned = None

(* The entry was replaced at 300 seconds by a read with use_cache set. *)
C27_WitnessReplaced ==
  /\ ManagerRead(op)
  /\ arg.use_cache
  /\ result.path = "provider"
  /\ clock = 300
  /\ cache_key(SheetOf(arg), arg.worksheet_name) \in DOMAIN session_state.sheets_cache
  /\ session_state.sheets_cache[cache_key(SheetOf(arg), arg.worksheet_name)].timestamp = 300

----------------------------------------------------------------------------
(* The keys of the entries of a sheet: one for each name of a worksheet. *)
KeysOf(sheet_id) == {cache_key(sheet_id, name) : name \in WorksheetNames}

ClearedOneSheet ==
  LET before == CacheOf(session_state)
      after == CacheOf(session_state')
  IN IF arg'.sheet_id = <<>> THEN after = EmptyDict
     ELSE /\ DOMAIN after = DOMAIN before \ KeysOf(SheetOf(arg'))
          /\ \A k \in DOMAIN after : after[k] = before[k]

(* C28: clear_cache(sheet_id) removes the entries of that sheet and leaves *)
(* every entry of another sheet as it was, also of a sheet whose id begins *)
(* with the given id; clear_cache() leaves no entry.                       *)
C28_ClearsOneSheet == [][(ClearCache \/ GsheetClearCache) => ClearedOneSheet]_vars

(* The longer id is cleared: the entry of the sheet whose id is its prefix  *)
(* stays.                                                                  *)
C28_Witness ==
  /\ op \in {"GoogleSheetsManager.clear_cache", "gsheet.clear_cache"}
  /\ arg.sheet_id = SheetABC
  /\ DOMAIN CacheOf(session_state) # {}
  /\ DOMAIN CacheOf(session_state) \subseteq KeysOf(SheetAB)

----------------------------------------------------------------------------
(* The keys of the Google Sheets configuration that a logout is to keep. *)
SheetsConfiguration == {"global_gsheets_creds", "sheets_cache", "data_cache"}

(* A key holds after what it held before: absent in both, or the same      *)
(* value in both.                                                          *)
Kept(before, after, key) ==
  /\ key \in DOMAIN before <=> key \in DOMAIN after
  /\ key \in DOMAIN before => after[key] = before[key]

LoggedOutKeeping(before, after) ==
  /\ "logged_in" \in DOMAIN after
  /\ after.logged_in = FALSE
  /\ DOMAIN after \cap (user_session_keys \ {"logged_in"}) = {}
  /\ \A key \in SheetsConfiguration : Kept(before, after, key)

(* The session of which check_session_validity calls logout_user. *)
Expired(ss, now) ==
  /\ Get(ss, "logged_in", FALSE)
  /\ truthy(Get(ss, "session_expiry", None))
  /\ now > ss.session_expiry.at

(* C29: after logout_user(), called directly, by the Logout button of the  *)
(* sidebar or by check_session_validity on an expired session, logged_in   *)
(* is False, the seven other user session keys are absent, and             *)
(* global_gsheets_creds, sheets_cache and data_cache hold what they held   *)
(* before the call, with or without credentials configured.                *)
C29_LogoutKeepsSheets ==
  [][/\ LogoutUser => LoggedOutKeeping(session_state, session_state')
     /\ SidebarLogout =>
          LoggedOutKeeping(init_session_state(session_state, clock), session_state')
     /\ (CheckSessionValidity /\ Expired(session_state, clock)) =>
          LoggedOutKeeping(session_state, session_state')]_vars

(* Logged out with credentials configured and an entry in the cache. *)
C29_Witness ==
  /\ op = "logout_user"
  /\ session_state.logged_in = FALSE
  /\ "user_name" \notin DOMAIN session_state
  /\ truthy(Get(session_state, "global_gsheets_creds", None))
  /\ DOMAIN CacheOf(session_state) # {}

(* Logged out without credentials. *)
C29_WitnessNoCredentials ==
  /\ op = "logout_user"
  /\ session_state.logged_in = FALSE
  /\ "session_expiry" \notin DOMAIN session_state
  /\ "sheets_cache" \in DOMAIN session_state
  /\ ~truthy(Get(session_state, "global_gsheets_creds", None))

(* Logged out by the button of the sidebar, the cache kept. *)
C29_WitnessSidebar ==
  /\ op = "render_quick_actions_card.logout"
  /\ session_state.logged_in = FALSE
  /\ "user_email" \notin DOMAIN session_state
  /\ DOMAIN CacheOf(session_state) # {}

(* Logged out by check_session_validity after the expiry, the cache kept. *)
C29_WitnessExpired ==
  /\ op = "check_session_validity"
  /\ result.returned = FALSE
  /\ "session_expiry" \notin DOMAIN session_state
  /\ "logged_in" \in DOMAIN session_state
  /\ DOMAIN CacheOf(session_state) # {}

====
